---- MODULE Spec2Model ----
(***************************************************************************)
(* Evidence bundle and chain-anchor subsystem of the ISO 20022 middleware: *)
(* app/anchor.py (anchor_bundle, find_anchor), app/anchor_node.py and      *)
(* app/bundle.py (_ensure_keys, create_bundle, verify_bundle).             *)
(***************************************************************************)
EXTENDS Integers, Sequences, FiniteSets, TLC

VARIABLES
    cfg,      \* process configuration read from the environment
    chain,    \* what the RPC provider sees: block height and the contract's event log
    fa,       \* the frame of one find_anchor call
    ab,       \* the frame of one anchor_bundle call
    ks,       \* the key files: the external seed and document, .keys/service_sk.hex
              \* and .keys/service_pk.pem
    ek,       \* the frames of the callers of _ensure_keys
    art,      \* the artifact directory of the receipt: evidence.zip, signature.sig,
              \* pain001.xml, as stored and served
    cb,       \* the frame of one create_bundle call
    vb,       \* the frame of one verify_bundle call
    dz,       \* the frame of one _deterministic_zip call
    db,       \* the receipts table
    rt,       \* the frames of the record_tip requests in progress, by client
    pr,       \* the background tasks _process_receipt, by receipt id
    ve,       \* the frame of one request to the verify endpoint
    hub,      \* _SSEHub._subs: the subscriber lists by receipt id
    se,       \* the stream_events generators, each with its queue
    pb        \* the last hub.publish call

vars == <<cfg, chain, fa, ab, ks, ek, art, cb, vb, dz, db, rt, pr, ve, hub, se, pb>>

hubVars == <<hub, se, pb>>
svcVars == <<db, rt, pr, ve, hubVars>>

keyVars == <<ks, ek>>
bundleVars == <<art, cb, vb, dz>>
notFa == <<cfg, chain, ab, keyVars, bundleVars, svcVars>>

None == "None"

Max2(a, b) == IF a >= b THEN a ELSE b

(***************************************************************************)
(* Bounds of the model.                                                    *)
(***************************************************************************)
\* highest block number the provider reports as the current height
MaxBlock == 110
\* spacing of the blocks at which the second event of the log may lie
DecoyStep == 55

(***************************************************************************)
(* Program constants.                                                      *)
(***************************************************************************)
\* anchor.py:245  chunk = max(50, chunk // 2)
MinChunk == 50

(***************************************************************************)
(* Bundle-hash argument strings, by the features the code inspects.        *)
(***************************************************************************)
HashValues == {1, 2}

HashArg(p, n, d, v) == [prefix0x |-> p, bodyLen |-> n, digits |-> d, val |-> v]

HashArgs ==
    {HashArg(TRUE, 64, "lower", 1), HashArg(TRUE, 64, "upper", 1),
     HashArg(FALSE, 64, "lower", 1), HashArg(TRUE, 63, "lower", 1),
     HashArg(TRUE, 64, "nonhex", 1)}

\* anchor.py:59-65: a "0x" prefix, 64 characters after it, parsed base 16
\* (int(s, 16) accepts either letter case).
Hex32FromPrefixed(arg) ==
    IF ~arg.prefix0x THEN [ok |-> FALSE, val |-> 0]
    ELSE IF arg.bodyLen # 64 THEN [ok |-> FALSE, val |-> 0]
    ELSE IF arg.digits = "nonhex" THEN [ok |-> FALSE, val |-> 0]
    ELSE [ok |-> TRUE, val |-> arg.val]

(***************************************************************************)
(* Configuration and chain.                                                *)
(***************************************************************************)
LookbackChoices == {70, 200}
ChunkChoices == {0, 30, 60, 120}

Configs ==
    [CONTRACT_ADDR : {"set"}, PRIVATE_KEY : {"set"},
     LOOKBACK_BLOCKS : LookbackChoices,
     ANCHOR_CHUNK_SIZE : ChunkChoices]
    \cup [CONTRACT_ADDR : {"unset"}, PRIVATE_KEY : {"set"},
          LOOKBACK_BLOCKS : {200}, ANCHOR_CHUNK_SIZE : {60}]

DecoyBlocks == {b \in 0..MaxBlock : b % DecoyStep = 0} \cup {MaxBlock}

\* The event log of the contract, in log order (ascending block number).
\* Transaction ids are the positions in the log, so they are unique.
EventLogs ==
    {<<>>}
    \cup {<<[blockNumber |-> b, bundleHash |-> h, transactionHash |-> 1]>> :
            b \in 0..MaxBlock, h \in HashValues}
    \cup {<<[blockNumber |-> b1, bundleHash |-> h1, transactionHash |-> 1],
            [blockNumber |-> b2, bundleHash |-> h2, transactionHash |-> 2]>> :
            b1 \in 0..MaxBlock, b2 \in DecoyBlocks, h1 \in HashValues, h2 \in HashValues}
    \cup {<<[blockNumber |-> b2, bundleHash |-> h2, transactionHash |-> 1],
            [blockNumber |-> b1, bundleHash |-> h1, transactionHash |-> 2]>> :
            b1 \in 0..MaxBlock, b2 \in DecoyBlocks, h1 \in HashValues, h2 \in HashValues}

SortedByBlock(log) ==
    \A i \in 1..Len(log) : \A j \in 1..Len(log) :
        i < j => log[i].blockNumber <= log[j].blockNumber

Chains ==
    {[latest |-> n, logs |-> l, ntx |-> Len(l)] :
        n \in {MaxBlock - 7, MaxBlock},
        l \in {x \in EventLogs : SortedByBlock(x)}}

(***************************************************************************)
(* _ensure_keys (bundle.py:65-113) and the public-key document.            *)
(***************************************************************************)
\* threads of the process that may be inside _ensure_keys at a time
NCallers == 2
\* calls each caller makes
MaxCalls == 2

Callers == 1..NCallers

\* Seeds handed in from outside; the n-th generated seed is n.
EnvSeeds == {91, 92}

\* nacl: the verify key of a signing key (one-to-one on seeds)
PubOf(seed) == seed + 1000

\* bundle.py:116-121: header, base64 body, footer
ToPem(pk_raw) == [begin |-> "ED25519 PUBLIC KEY", b64 |-> pk_raw * 4, pad |-> "="]

\* bundle.py:124-128: the lines without dashes, joined and decoded
PemToRaw(pem) == pem.b64 \div 4

NoFile == [exists |-> FALSE, data |-> 0]
File(d) == [exists |-> TRUE, data |-> d]

ksEmpty ==
    [env_sk |-> NoFile, env_sk_len |-> 0, env_pk |-> NoFile,
     dev_sk |-> NoFile, dev_pk |-> NoFile,
     ngen |-> 0, preexisting |-> FALSE, crashed |-> FALSE, first_sk |-> 0]

NoKeys == [seed |-> 0, pk_raw |-> 0, pem |-> ToPem(0)]

ekIdle == [pc |-> "idle", calls |-> 0, seed |-> 0, pem |-> ToPem(0), ret |-> NoKeys,
           path |-> "none", at_check |-> [sk |-> FALSE, pk |-> FALSE]]

Returned(p, seed, pem, path) ==
    [ek EXCEPT ![p].pc = "done",
               ![p].ret = [seed |-> seed, pk_raw |-> PubOf(seed), pem |-> pem],
               ![p].path = path]

(***************************************************************************)
(* Bundle contents (bundle.py:47-48, 131-151, 165-224).  File contents are  *)
(* sequences of byte values; a digest is one-to-one on contents.           *)
(***************************************************************************)
\* receipt fields that may be absent from the dict given to create_bundle
MaxMissing == 1
\* files of the stored archive that are altered after it was written
MaxTamper == 1

\* bundle.py:47-48
Sha256Hex(data) == [prefix |-> "0x", digest |-> data]

\* bundle.py:246, 348  bytes.fromhex(bundle_hash[2:])
RawDigest(h) == h.digest

\* The keys of the dict handed to create_bundle (main.py:222-233).
Fields ==
    <<"id", "reference", "tip_tx_hash", "chain", "amount", "currency",
      "sender_wallet", "receiver_wallet", "status", "created_at">>

FieldSet == {Fields[i] : i \in 1..Len(Fields)}

\* bundle.py:189-198: the keys of tip.json
TipFields ==
    <<"reference", "tip_tx_hash", "chain", "amount", "currency",
      "sender_wallet", "receiver_wallet">>

\* A receipt dict: 0 stands for an absent key, any other number for a value.
Receipts ==
    {r \in [FieldSet -> {0, 1}] : Cardinality({f \in FieldSet : r[f] = 0}) <= MaxMissing}

MissingFields(r) == {f \in FieldSet : r[f] = 0}

\* bundle.py:175-183  receipt.get(key): None for an absent key
Get(r, f) == r[f]

\* bundle.py:172-187, 189-201: json.dumps of the keys in order; one byte
\* per pair here, the key position and the value (0 is null)
JsonOfFields(keys, r) == [i \in 1..Len(keys) |-> 10 * i + Get(r, keys[i])]

\* Lexicographic order of the file names of a bundle.
NameOrder ==
    <<"manifest.json", "pain001.xml", "public_key.pem", "receipt.json", "tip.json">>

NameRank(n) == CHOOSE i \in 1..Len(NameOrder) : NameOrder[i] = n

InsertionOrder(pairs) == pairs

\* sorted(...) of (name, content) pairs with distinct names
SortByName(pairs) ==
    [k \in 1..Len(pairs) |->
        pairs[CHOOSE i \in 1..Len(pairs) :
                Cardinality({j \in 1..Len(pairs) :
                    NameRank(pairs[j].name) < NameRank(pairs[i].name)}) = k - 1]]

Pair(n, d) == [name |-> n, data |-> d]

FilesForManifestNoTip(pain_xml, receipt_json, tip_json) ==
    <<Pair("pain001.xml", pain_xml), Pair("receipt.json", receipt_json)>>

\* bundle.py:204-208
FilesForManifest(pain_xml, receipt_json, tip_json) ==
    <<Pair("pain001.xml", pain_xml), Pair("receipt.json", receipt_json),
      Pair("tip.json", tip_json)>>

\* bundle.py:216-220
ManifestEntry(pair) ==
    [name |-> pair.name, sha256 |-> Sha256Hex(pair.data), size |-> Len(pair.data)]

\* bundle.py:210-224: the manifest and its JSON text
ManifestJson(r, rid, files) ==
    LET sorted == SortByName(files) IN
    [json |-> "valid",
     version |-> "1.0", reference |-> Get(r, "reference"), receipt_id |-> rid,
     created_at |-> Get(r, "created_at"),
     files |-> [i \in 1..Len(sorted) |-> ManifestEntry(sorted[i])]]

\* bundle.py:233-239
FileMap(pain_xml, receipt_json, tip_json, manifest_json, pk_pem) ==
    <<Pair("pain001.xml", pain_xml), Pair("receipt.json", receipt_json),
      Pair("tip.json", tip_json), Pair("manifest.json", manifest_json),
      Pair("public_key.pem", pk_pem)>>

\* bundle.py:143-149: entries in name order, fixed date, fixed mode, stored
DeterministicZip(file_map) ==
    LET sorted == SortByName(file_map) IN
    [zip |-> TRUE,
     entries |-> [i \in 1..Len(sorted) |->
                    [name |-> sorted[i].name, data |-> sorted[i].data,
                     date_time |-> <<1980, 1, 1, 0, 0, 0>>, mode |-> "0644",
                     method |-> "stored"]]]

NotAZip == [zip |-> FALSE, entries |-> <<>>]

\* files a mapping handed to _deterministic_zip may hold
MaxFiles == 3

FileContents == {<<1>>, <<2, 3>>}

NamesOf(m) == {m[i].name : i \in 1..Len(m)}

\* bundle.py:131  file_map: a dict, here the items in insertion order
FileMaps ==
    {m \in UNION {[1..k -> {Pair(n, d) : n \in {NameOrder[i] : i \in 1..Len(NameOrder)}, d \in FileContents}] :
                    k \in 0..MaxFiles} :
        Cardinality(NamesOf(m)) = Len(m)}

dzIdle == [pc |-> "idle", file_map |-> <<>>, mem |-> NotAZip, ret |-> NotAZip,
           old |-> [exists |-> FALSE, data |-> NotAZip]]

\* nacl: an Ed25519 signature of msg, and its check against a verify key
Sign(seed, msg) == [signer |-> PubOf(seed), msg |-> msg]
VerifySig(pk_raw, msg, sig) == sig.signer = pk_raw /\ sig.msg = msg

\* bundle.py:252  sig.hex()   and   bundle.py:342-343  bytes.fromhex
HexOf(sig) == [hex |-> sig]
FromHex(text) == text.hex

NoSig == HexOf(Sign(0, NotAZip))

artEmpty == [dir |-> FALSE, ntamper |-> 0, zip |-> [exists |-> FALSE, data |-> NotAZip],
             sig |-> [exists |-> FALSE, data |-> NoSig],
             xml |-> [exists |-> FALSE, data |-> <<>>]]

XmlDocs == {<<1, 2>>, <<1, 3, 4>>}

cbIdle ==
    [pc |-> "idle", receipt |-> [f \in FieldSet |-> 1], xml_bytes |-> <<>>,
     rid |-> 0, receipt_json |-> <<>>, tip_json |-> <<>>,
     manifest_json |-> ManifestJson([f \in FieldSet |-> 1], 0, <<>>),
     zip_bytes |-> NotAZip, bundle_hash |-> Sha256Hex(NotAZip), keys |-> NoKeys]

vbIdle ==
    [pc |-> "idle", received |-> NotAZip, bundle_hash |-> Sha256Hex(NotAZip),
     errors |-> <<>>, pk_pem |-> ToPem(0), schema |-> FALSE,
     result |-> [bundle_hash |-> Sha256Hex(NotAZip), errors |-> <<>>]]

LoadContractAlwaysOk == TRUE

\* anchor.py:75-99: _load_contract raises when CONTRACT_ADDR is not set.
LoadContractOk == cfg.CONTRACT_ADDR = "set"

NoMatch == [matches |-> FALSE, txid |-> None]

faIdle ==
    [pc |-> "idle", arg |-> None, target |-> 0, latest |-> 0, from_block |-> 0,
     chunk |-> 0, end |-> 0, result |-> None, queries |-> {}, skipped |-> FALSE,
     via |-> None]

(***************************************************************************)
(* The receipts table and the requests of the service (main.py, models.py).*)
(***************************************************************************)
\* record_tip requests made in all
MaxRequests == 3

\* the clients; each has at most one request in progress at a time
Clients == {"c1", "c2"}

\* schemas.py:23-33: the fields of a request the handler's control flow
\* depends on; the first and the second payload carry the same
\* (chain, tip_tx_hash), the third another pair under the reference of the
\* first.
TipPayloads ==
    {[chain |-> "coston2", tip_tx_hash |-> 1, reference |-> 1],
     [chain |-> "coston2", tip_tx_hash |-> 1, reference |-> 2],
     [chain |-> "flare", tip_tx_hash |-> 1, reference |-> 1]}

NoPayload == [chain |-> None, tip_tx_hash |-> 0, reference |-> 0]

PairOf(x) == <<x.chain, x.tip_tx_hash>>

\* uuid4 never repeats: the n-th receipt created has the id n
ReceiptIds == 1..Cardinality({PairOf(x) : x \in TipPayloads})

\* main.py:185-198: the row record_tip inserts (0 stands for NULL)
NewReceipt(rid, payload) ==
    [id |-> rid, chain |-> payload.chain, tip_tx_hash |-> payload.tip_tx_hash,
     reference |-> payload.reference, status |-> "pending", bundle_hash |-> 0,
     flare_txid |-> 0, anchored_at |-> 0, paths |-> FALSE]

NoRow == NewReceipt(0, NoPayload)

NoResp == [receipt_id |-> 0, status |-> None]

rtIdle ==
    [pc |-> "idle", payload |-> NoPayload, keyed |-> FALSE, resp |-> NoResp,
     calls |-> 0, recorded |-> FALSE, created |-> 0, scheduled |-> 0]

prIdle ==
    [pc |-> "none", rec |-> NoRow, xml |-> "none", bundle |-> "none",
     web3 |-> "none", node |-> "none"]

\* highest number of calls of the verify endpoint in a run
MaxVerifies == 2

\* schemas.py:78-83 (0 stands for None)
NoVerifyResp == [matches_onchain |-> FALSE, bundle_hash |-> 0, flare_txid |-> 0,
                 errors |-> <<>>]

\* the frame of the verify endpoint (main.py:422-498): the environment's
\* VERIFY_AUTO_ANCHOR, the request, verify_bundle's result when it was
\* called, the locals, and what the call has done so far
veIdle ==
    [pc |-> "idle", auto |-> "0", calls |-> 0, by_url |-> FALSE, req_hash |-> 0,
     verified |-> FALSE, verrors |-> <<>>, bundle_hash |-> 0, errors |-> <<>>,
     matches |-> FALSE, txid |-> 0, submitted |-> FALSE, db0 |-> <<>>,
     resp |-> NoVerifyResp]

\* sse.py:19  asyncio.Queue(maxsize=100)
QueueMax == 100

\* the receipt ids events are published and streamed for
HubRids == {"r1", "r2"}

\* the open connections to the events endpoint
Streams == {"s1", "s2"}

\* sse.py:15: no receipt id has an entry
hubEmpty == [rid \in HubRids |-> [present |-> FALSE, lst |-> <<>>]]

seIdle == [pc |-> "idle", rid |-> None, q |-> <<>>]

pbNone == [rid |-> None, n |-> 0]

SvcIdle ==
    /\ db = <<>>
    /\ rt = [c \in Clients |-> rtIdle]
    /\ pr = [rid \in ReceiptIds |-> prIdle]
    /\ ve = veIdle
    /\ hub = hubEmpty
    /\ se = [s \in Streams |-> seIdle]
    /\ pb = pbNone

(***************************************************************************)
(* anchor_bundle (anchor.py:160-197).                                      *)
(***************************************************************************)
\* anchor.py:177  for attempt in range(3)
MaxAttempts == 3

\* anchor.py:176  last_err = None
NoErr == [kind |-> "none", attempt |-> 0]

\* anchor.py:109  tip = int(2e9)
TipFloor == 2000000000

\* anchor.py:152  gas_est = 200_000
GasFallback == 200000

\* What w3.eth.fee_history returns: the call raises (available FALSE), or a
\* history with the base fees (oldest first, none on a chain without them)
\* and the reward rows, one per block, each the 10th, 50th and 90th
\* percentile tips (the key may be absent or empty, a row may be empty or
\* short).
FeeHistory(a, b, r) == [available |-> a, baseFeePerGas |-> b, reward |-> r]

FeeHistories ==
    {FeeHistory(FALSE, <<>>, <<>>),
     FeeHistory(TRUE, <<>>, <<<<1, TipFloor + 5, TipFloor + 9>>>>),
     FeeHistory(TRUE, <<3, 7>>, <<>>),
     FeeHistory(TRUE, <<3, 7>>, <<<<1, 5, 9>>, <<1, TipFloor + 5, TipFloor + 9>>>>),
     FeeHistory(TRUE, <<7, 25000000>>, <<<<1, TipFloor + 5, TipFloor + 9>>, <<1, 5, 9>>>>),
     FeeHistory(TRUE, <<0>>, <<<<1, TipFloor, TipFloor + 9>>>>),
     FeeHistory(TRUE, <<3, 7>>, <<<<1, TipFloor + 5, TipFloor + 9>>, <<>>>>),
     FeeHistory(TRUE, <<3, 7>>, <<<<1, 5, 9>>, <<TipFloor + 5>>>>)}

NoFees == [ok |-> FALSE, max_fee |-> 0, max_priority |-> 0]

MedianOfOldest(prio) == prio[1][2]

\* anchor.py:114  int(prio[-1][1]): the 50th percentile of the last row
MedianOfLatest(prio) == prio[Len(prio)][2]

\* anchor.py:102-122: None when the call or the base-fee read raises; the tip
\* is the floor, raised to the median of the last row when that row is there
\* (an exception while reading it leaves the floor).
EstimateFeesEip1559(h) ==
    IF ~h.available \/ Len(h.baseFeePerGas) = 0 THEN NoFees
    ELSE LET base == h.baseFeePerGas[Len(h.baseFeePerGas)]
             prio == h.reward
             tip == IF Len(prio) > 0 /\ Len(prio[Len(prio)]) > 0
                    THEN IF Len(prio[Len(prio)]) >= 2
                         THEN Max2(TipFloor, MedianOfLatest(prio))
                         ELSE TipFloor
                    ELSE TipFloor
         IN [ok |-> TRUE, max_fee |-> base * 2 + tip, max_priority |-> tip]

\* what w3.eth.gas_price and estimate_gas may answer
GasPrices == {31}
GasEstimates == {21000, 45678}

GasWithoutMargin(gas_est) == gas_est

\* anchor.py:149  int(gas_est * 1.2)
GasMargin(gas_est) == (gas_est * 12) \div 10

FeeKeys == {"type", "maxFeePerGas", "maxPriorityFeePerGas", "gasPrice"}

NoTx == [keys |-> {}, nonce |-> 0, type |-> 0, maxFeePerGas |-> 0,
         maxPriorityFeePerGas |-> 0, gasPrice |-> 0, gas |-> 0]

\* anchor.py:130-156: the transaction dict: the skeleton, one fee model, the
\* gas limit.
BuildTxAnchor(nonce, h, gas_price, gas_est) ==
    LET fees == EstimateFeesEip1559(h)
        skeleton == [NoTx EXCEPT !.keys = {"from", "nonce", "chainId"}, !.nonce = nonce]
        withFees == IF fees.ok
                    THEN [skeleton EXCEPT
                            !.keys = @ \cup {"type", "maxFeePerGas", "maxPriorityFeePerGas"},
                            !.type = 2,
                            !.maxFeePerGas = fees.max_fee,
                            !.maxPriorityFeePerGas = fees.max_priority]
                    ELSE [skeleton EXCEPT !.keys = @ \cup {"gasPrice"},
                                          !.gasPrice = gas_price]
    IN [withFees EXCEPT !.keys = @ \cup {"gas"},
                        !.gas = IF gas_est = 0 THEN GasFallback ELSE GasMargin(gas_est)]

abIdle ==
    [pc |-> "idle", arg |-> None, hash |-> 0, attempt |-> 0, last_err |-> NoErr,
     tx_hash |-> 0, sent |-> <<>>, sleeps |-> <<>>, errors |-> <<>>,
     result |-> [txid |-> 0, block |-> 0, attempt |-> 0], raised |-> NoErr,
     tx |-> NoTx, hist |-> FeeHistory(FALSE, <<>>, <<>>), nonce_reads |-> 0,
     gas_est |-> 0]

\* The call is entered with some argument string.
AnchorCall ==
    /\ ab.pc = "idle"
    /\ \E arg \in HashArgs : ab' = [ab EXCEPT !.pc = "pre", !.arg = arg]
    /\ UNCHANGED <<cfg, svcVars, chain, fa, keyVars, bundleVars>>

\* anchor.py:165-172: the configuration and the argument are checked before
\* the retry loop; each failure leaves the function at once.
AnchorPrecheck ==
    /\ ab.pc = "pre"
    /\ LET h == Hex32FromPrefixed(ab.arg) IN
       ab' = IF cfg.PRIVATE_KEY # "set"
             THEN [ab EXCEPT !.pc = "raised",
                             !.raised = [kind |-> "no_private_key", attempt |-> 0]]
             ELSE IF ~LoadContractOk
             THEN [ab EXCEPT !.pc = "raised",
                             !.raised = [kind |-> "no_contract_addr", attempt |-> 0]]
             ELSE IF ~h.ok
             THEN [ab EXCEPT !.pc = "raised",
                             !.raised = [kind |-> "bad_hash", attempt |-> 0]]
             ELSE [ab EXCEPT !.pc = "build", !.hash = h.val]
    /\ UNCHANGED <<cfg, svcVars, chain, fa, keyVars, bundleVars>>

\* anchor.py:193  time.sleep(1 + attempt)
Backoff(attempt) == 1 + attempt

\* anchor.py:177, 194: the loop goes on while attempts are left
AfterAttempt(attempt) == IF attempt + 1 < MaxAttempts THEN "build" ELSE "exhausted"

KeepFirstError(old, new) == IF old = NoErr THEN new ELSE old

\* anchor.py:187, 190: the error the loop keeps
KeepError(old, new) == new

\* anchor.py:189-193: an exception inside the attempt: the error is kept, the
\* back-off sleep is taken and the loop goes to the next attempt.
Excepted(kind) ==
    [ab EXCEPT !.last_err = KeepError(@, [kind |-> kind, attempt |-> ab.attempt + 1]),
               !.errors = Append(@, [kind |-> kind, attempt |-> ab.attempt + 1]),
               !.sleeps = Append(@, Backoff(ab.attempt)),
               !.attempt = @ + 1,
               !.pc = AfterAttempt(ab.attempt)]

\* anchor.py:179, 125-157: _build_tx_anchor reads the pending nonce (132),
\* the fees (137-143) and the gas estimate (146-152, 0 here when the estimate
\* raises) and builds the transaction; a provider error in the nonce read or
\* in the legacy gas-price read is an exception of the attempt.
AnchorBuildFrom(hists, prices, gases) ==
    /\ ab.pc = "build"
    /\ \/ ab' = [Excepted("build_error") EXCEPT !.nonce_reads = @ + 1]
       \/ \E h \in hists : \E gp \in prices : \E g \in gases :
            ab' = [ab EXCEPT !.pc = "send",
                             !.nonce_reads = @ + 1,
                             !.hist = h,
                             !.gas_est = g,
                             !.tx = BuildTxAnchor(chain.ntx, h, gp, g)]
    /\ UNCHANGED <<cfg, svcVars, chain, fa, keyVars, bundleVars>>

AnchorBuild == AnchorBuildFrom(FeeHistories, GasPrices, GasEstimates \cup {0})

\* anchor.py:181: the signed transaction is broadcast, or the provider
\* rejects it.
AnchorSend ==
    /\ ab.pc = "send"
    /\ \/ /\ ab' = [ab EXCEPT !.pc = "wait",
                              !.tx_hash = chain.ntx + 1,
                              !.sent = Append(@, [txid |-> chain.ntx + 1,
                                                  receipt |-> "none", block |-> 0])]
          /\ chain' = [chain EXCEPT !.ntx = @ + 1]
       \/ /\ ab' = Excepted("send_error")
          /\ UNCHANGED chain
    /\ UNCHANGED <<cfg, svcVars, fa, keyVars, bundleVars>>

ReceiptOkAnyStatus(status) == TRUE

\* anchor.py:184: what counts as a successful receipt ("status" absent
\* defaults to 1)
ReceiptOk(status) == status \in {"1", "absent"}

\* anchor.py:183-188: the wait for the receipt times out (an exception), or a
\* receipt arrives from a new block: with status 1 the contract's event is in
\* the log and the call returns, otherwise the attempt has failed.
AnchorWait ==
    /\ ab.pc = "wait"
    /\ \/ /\ ab' = Excepted("wait_timeout")
          /\ UNCHANGED chain
       \/ \E status \in {"1", "0", "absent"} :
            LET blk == chain.latest + 1 IN
            /\ chain' = [chain EXCEPT
                            !.latest = blk,
                            !.logs = IF status = "0" THEN @
                                     ELSE Append(@, [blockNumber |-> blk,
                                                     bundleHash |-> ab.hash,
                                                     transactionHash |-> ab.tx_hash])]
            /\ ab' = IF ReceiptOk(status)
                     THEN [ab EXCEPT !.pc = "done",
                                     !.sent[Len(ab.sent)].receipt = status,
                                     !.sent[Len(ab.sent)].block = blk,
                                     !.result = [txid |-> ab.tx_hash, block |-> blk,
                                                 attempt |-> ab.attempt + 1]]
                     ELSE [ab EXCEPT !.last_err = KeepError(@, [kind |-> "status_failed",
                                                      attempt |-> ab.attempt + 1]),
                                     !.errors = Append(@, [kind |-> "status_failed",
                                                           attempt |-> ab.attempt + 1]),
                                     !.sent[Len(ab.sent)].receipt = status,
                                     !.sent[Len(ab.sent)].block = blk,
                                     !.attempt = @ + 1,
                                     !.pc = AfterAttempt(ab.attempt)]
    /\ UNCHANGED <<cfg, svcVars, fa, keyVars, bundleVars>>

AbLogged(txid) ==
    \E i \in 1..Len(chain.logs) : chain.logs[i].transactionHash = txid

\* anchor.py:132, 181-183, 189-193: a transaction whose wait timed out stays
\* with the network, and the next attempt takes the nonce after it (the count
\* of pending transactions), so the network may still include it, in nonce
\* order: before every later transaction of the call that is included.
ChainIncludesStale ==
    /\ \E i \in 1..Len(ab.sent) :
         /\ ab.sent[i].receipt = "none"
         /\ i < Len(ab.sent) \/ ab.pc # "wait"
         /\ \A j \in i..Len(ab.sent) :
               ab.sent[j].receipt = "none" /\ ~AbLogged(ab.sent[j].txid)
         /\ chain' = [chain EXCEPT
                         !.latest = @ + 1,
                         !.logs = Append(@, [blockNumber |-> chain.latest + 1,
                                             bundleHash |-> ab.hash,
                                             transactionHash |-> ab.sent[i].txid])]
    /\ UNCHANGED <<cfg, svcVars, fa, ab, keyVars, bundleVars>>

\* anchor.py:194-197: the attempts are used up and the last error is raised
AnchorRaise ==
    /\ ab.pc = "exhausted"
    /\ ab' = [ab EXCEPT !.pc = "raised",
                        !.raised = IF ab.last_err # NoErr THEN ab.last_err
                                   ELSE [kind |-> "unknown", attempt |-> 0]]
    /\ UNCHANGED <<cfg, svcVars, chain, fa, keyVars, bundleVars>>

AnchorConfigs ==
    [CONTRACT_ADDR : {"set", "unset"}, PRIVATE_KEY : {"set", "unset"},
     LOOKBACK_BLOCKS : {200}, ANCHOR_CHUNK_SIZE : {60}]

InitAnchor ==
    /\ cfg \in AnchorConfigs
    /\ chain \in {c \in Chains : c.latest = MaxBlock /\ Len(c.logs) = 0}
    /\ fa = faIdle
    /\ ab = abIdle
    /\ ks = ksEmpty
    /\ ek = [p \in Callers |-> ekIdle]
    /\ art = artEmpty
    /\ cb = cbIdle
    /\ vb = vbIdle
    /\ dz = dzIdle
    /\ SvcIdle

NextAnchor ==
    \/ AnchorCall
    \/ AnchorPrecheck
    \/ AnchorBuild
    \/ AnchorSend
    \/ AnchorWait
    \/ AnchorRaise
    \/ ChainIncludesStale

SpecAnchor == InitAnchor /\ [][NextAnchor]_vars

(***************************************************************************)
(* Properties of anchor_bundle.                                            *)
(***************************************************************************)
AbLast == ab.sent[Len(ab.sent)]

\* C3: one call broadcasts at most 3 transactions in at most 3 attempts; it
\* returns at the first attempt whose receipt reports success, with that
\* attempt's transaction id and block number; an attempt whose receipt
\* reports the failure status is a failed attempt and is never the one
\* returned.
C3_AtMostThreeAttemptsFirstSuccess ==
    /\ Len(ab.sent) <= 3
    /\ ab.attempt <= 3
    /\ Len(ab.sent) <= ab.attempt + 1
    /\ \A i \in 1..Len(ab.sent) :
          ab.sent[i].receipt = "0" => \E e \in 1..Len(ab.errors) :
                                        ab.errors[e].kind = "status_failed"
    /\ ab.pc = "done" =>
          /\ Len(ab.sent) >= 1
          /\ AbLast.receipt \in {"1", "absent"}
          /\ ab.result.txid = AbLast.txid
          /\ ab.result.block = AbLast.block
          /\ ab.result.attempt = ab.attempt + 1
          /\ \A i \in 1..(Len(ab.sent) - 1) : ab.sent[i].receipt \in {"none", "0"}
    /\ (\E i \in 1..Len(ab.sent) : ab.sent[i].receipt \in {"1", "absent"}) =>
          ab.pc = "done"

\* C3 witness: the call returns at its third attempt, after an attempt whose
\* receipt reported the failure status.
C3_Witness ==
    /\ ab.pc = "done"
    /\ Len(ab.sent) = 3
    /\ ab.sent[2].receipt = "0"
    /\ ab.result.attempt = 3

AbPrecheckKinds == {"no_private_key", "no_contract_addr", "bad_hash"}

\* C4: when all 3 attempts have failed the call raises the error observed in
\* the third attempt, whatever the kinds of the three failures, and returns no
\* (txid, block) pair.
C4_RaisesLastError ==
    /\ ab.attempt = MaxAttempts =>
          /\ ab.pc \in {"exhausted", "raised"}
          /\ Len(ab.errors) = MaxAttempts
          /\ ab.last_err = ab.errors[MaxAttempts]
          /\ ab.result = abIdle.result
    /\ (ab.pc = "raised" /\ ab.raised.kind \notin AbPrecheckKinds) =>
          /\ ab.attempt = MaxAttempts
          /\ ab.raised = ab.errors[MaxAttempts]
          /\ ab.raised.attempt = MaxAttempts
    /\ ab.pc = "done" => ab.attempt < MaxAttempts

\* C4 witness: three failures of different kinds, the last one a receipt with
\* the failure status, and the call has raised.
C4_Witness ==
    /\ ab.pc = "raised"
    /\ Len(ab.errors) = 3
    /\ ab.errors[1].kind = "wait_timeout"
    /\ ab.errors[2].kind = "build_error"
    /\ ab.errors[3].kind = "status_failed"

\* Canonical text of a bundle hash: "0x" and 64 lowercase hex characters.
CanonicalHash(arg) == arg.prefix0x /\ arg.bodyLen = 64 /\ arg.digits = "lower"

\* C11: a bundle-hash string that is not "0x" followed by exactly 64 lowercase
\* hex characters is rejected before any provider call: no nonce is read and
\* no transaction is built or broadcast for it.
C11_OnlyCanonicalHashReachesNetwork ==
    (ab.nonce_reads > 0 \/ Len(ab.sent) > 0 \/ ab.pc \in {"build", "send", "wait", "done"})
        => CanonicalHash(ab.arg)

\* C12: every failed attempt, whatever its kind, is followed by a delay
\* before the next attempt, and the delay after the n-th attempt is n units.
C12_EveryFailureIsFollowedByDelay ==
    /\ Len(ab.sleeps) = Len(ab.errors)
    /\ \A i \in 1..Len(ab.sleeps) : ab.sleeps[i] = i

ConfigMissing == cfg.PRIVATE_KEY # "set" \/ cfg.CONTRACT_ADDR # "set"

\* C16: with no signing key or no contract address configured the call
\* raises a configuration error at once: no attempt is made, no nonce is
\* read, nothing is broadcast and no delay is taken.
C16_ConfigErrorIsImmediate ==
    (ConfigMissing /\ ab.pc \notin {"idle", "pre"}) =>
        /\ ab.pc = "raised"
        /\ ab.raised.kind \in {"no_private_key", "no_contract_addr"}
        /\ ab.attempt = 0
        /\ ab.nonce_reads = 0
        /\ ab.tx = NoTx
        /\ ab.sent = <<>>
        /\ ab.sleeps = <<>>
        /\ ab.errors = <<>>
        /\ chain.ntx = 0 /\ chain.logs = <<>>

\* C16 witness: the key is configured, the contract address is not, and the
\* call with a well-formed hash has raised.
C16_Witness ==
    /\ cfg.PRIVATE_KEY = "set" /\ cfg.CONTRACT_ADDR = "unset"
    /\ ab.pc = "raised"
    /\ CanonicalHash(ab.arg)
    /\ ab.raised.kind = "no_contract_addr"

\* The fee history read for the transaction in hand is usable: the call
\* answered and carries a base fee.
FeeHistoryUsable(h) == h.available /\ Len(h.baseFeePerGas) > 0

\* The median tip of the latest block of the history, 0 when the history
\* has none.
LatestMedianTip(h) ==
    IF Len(h.reward) > 0 /\ Len(h.reward[Len(h.reward)]) >= 2
    THEN h.reward[Len(h.reward)][2] ELSE 0

\* C19: a transaction that was built carries exactly one fee model: with a
\* usable fee history the dynamic one, priority = max(2 gwei, median tip of
\* the latest block) and cap = 2 x latest base fee + priority, and no legacy
\* price; without it the legacy gas price and no dynamic field.
C19_ExactlyOneFeeModel ==
    ab.tx # NoTx =>
        LET have == ab.tx.keys \cap FeeKeys IN
        /\ have \in {{"type", "maxFeePerGas", "maxPriorityFeePerGas"}, {"gasPrice"}}
        /\ FeeHistoryUsable(ab.hist) =>
              /\ have = {"type", "maxFeePerGas", "maxPriorityFeePerGas"}
              /\ ab.tx.type = 2
              /\ ab.tx.maxPriorityFeePerGas = Max2(TipFloor, LatestMedianTip(ab.hist))
              /\ ab.tx.maxFeePerGas =
                    2 * ab.hist.baseFeePerGas[Len(ab.hist.baseFeePerGas)]
                    + ab.tx.maxPriorityFeePerGas
        /\ ~FeeHistoryUsable(ab.hist) =>
              /\ have = {"gasPrice"}
              /\ ab.tx.gasPrice \in GasPrices

\* C19 witness: after an earlier attempt that broadcast, an attempt has built
\* a legacy transaction because the fee history carried no base fee.
C19_Witness ==
    /\ Len(ab.sent) >= 1
    /\ ab.pc = "send"
    /\ ab.attempt >= 1
    /\ "gasPrice" \in ab.tx.keys
    /\ ab.hist.available /\ ab.hist.baseFeePerGas = <<>>

\* the attempt has left _build_tx_anchor with a transaction
AbBuilt == ab.tx # NoTx

AbErrorKinds == {"build_error", "send_error", "wait_timeout", "status_failed"}

\* C23: a failure of gas estimation does not fail the attempt: the
\* transaction is built with the gas limit 200000 and goes on to be signed and
\* broadcast (no error of the attempt stems from the estimation); when the
\* estimation answers, the gas limit is the estimate times 1.2, rounded down.
C23_GasEstimateFallback ==
    /\ AbBuilt =>
          /\ "gas" \in ab.tx.keys
          /\ ab.gas_est = 0 => ab.tx.gas = 200000
          /\ ab.gas_est # 0 => /\ 5 * ab.tx.gas <= 6 * ab.gas_est
                               /\ 6 * ab.gas_est < 5 * (ab.tx.gas + 1)
    /\ \A i \in 1..Len(ab.errors) : ab.errors[i].kind \in AbErrorKinds
    /\ ab.pc \in {"send", "wait", "done"} => AbBuilt

\* C23 witness: in the second attempt the estimation has failed and the
\* transaction, with the gas limit 200000, has been broadcast.
C23_Witness ==
    /\ ab.pc = "wait"
    /\ ab.attempt = 1
    /\ Len(ab.sent) = 2
    /\ ab.gas_est = 0
    /\ ab.tx.gas = 200000

\* the events in the log that transactions of this call produced
AbEventsOfCall ==
    {i \in 1..Len(chain.logs) :
        \E k \in 1..Len(ab.sent) : ab.sent[k].txid = chain.logs[i].transactionHash}

\* C27: one call of anchor_bundle gets at most one anchoring transaction for
\* the hash included (once a later attempt is broadcast no transaction of an
\* earlier attempt is included any more), and when the call has raised no
\* event for the hash stems from it.
C27_AtMostOneTransactionIncluded ==
    /\ Cardinality(AbEventsOfCall) <= 1
    /\ ab.pc = "raised" => AbEventsOfCall = {}

(***************************************************************************)
(* find_anchor (anchor.py:200-269).                                        *)
(***************************************************************************)
\* The call is entered with some argument string.
FindCall ==
    /\ fa.pc = "idle"
    /\ \E arg \in HashArgs : fa' = [fa EXCEPT !.pc = "load", !.arg = arg]
    /\ UNCHANGED notFa

\* anchor.py:210-214
FindLoadContract ==
    /\ fa.pc = "load"
    /\ fa' = IF LoadContractOk
             THEN [fa EXCEPT !.pc = "hex"]
             ELSE [fa EXCEPT !.pc = "done", !.result = NoMatch, !.via = "config"]
    /\ UNCHANGED notFa

\* anchor.py:216-220
FindParseHash ==
    /\ fa.pc = "hex"
    /\ LET h == Hex32FromPrefixed(fa.arg) IN
       fa' = IF h.ok
             THEN [fa EXCEPT !.pc = "height", !.target = h.val]
             ELSE [fa EXCEPT !.pc = "done", !.result = NoMatch, !.via = "hash"]
    /\ UNCHANGED notFa

\* anchor.py:224-233: the block height is read outside any try block, so a
\* provider error here leaves the function as an exception.
FindReadHeight ==
    /\ fa.pc = "height"
    /\ \E rpcOk \in BOOLEAN :
        fa' = IF rpcOk
              THEN [fa EXCEPT !.pc = "scan",
                              !.latest = chain.latest,
                              !.from_block = Max2(0, chain.latest - cfg.LOOKBACK_BLOCKS),
                              !.chunk = cfg.ANCHOR_CHUNK_SIZE,
                              !.end = chain.latest]
              ELSE [fa EXCEPT !.pc = "raised"]
    /\ UNCHANGED notFa

\* anchor.py:235
ChunkStart(from_block, end, chunk) == Max2(from_block, end - chunk + 1)

\* anchor.py:245
Halve(chunk) == Max2(MinChunk, chunk \div 2)

\* anchor.py:246: where the scan goes on after a failed query
AfterFailure(start, end) == start - 1

\* anchor.py:243-247: the provider rejects the query for [start, end]
FindQueryFail ==
    /\ fa.pc = "scan"
    /\ fa.end >= fa.from_block
    /\ LET start == ChunkStart(fa.from_block, fa.end, fa.chunk) IN
       fa' = [fa EXCEPT !.chunk = Halve(fa.chunk),
                        !.end = AfterFailure(start, fa.end),
                        !.queries = @ \cup {[start |-> start, end |-> fa.end,
                                                chunk |-> fa.chunk, ok |-> FALSE]}]
    /\ UNCHANGED notFa

\* Positions of the log entries a query for [start, end] returns.
LogsIn(start, end) ==
    {i \in 1..Len(chain.logs) :
        start <= chain.logs[i].blockNumber /\ chain.logs[i].blockNumber <= end}

\* anchor.py:250-264: newest first; an entry whose decoding or whose block
\* fetch raises (bad) is passed over; the first entry left whose hash is the
\* target is returned.
Newest(cands) == CHOOSE i \in cands : \A j \in cands : j <= i

FirstMatch(idx, bad, target) ==
    LET cands == {i \in idx : i \notin bad /\ chain.logs[i].bundleHash = target}
    IN IF cands = {} THEN 0 ELSE Newest(cands)

NextEndSkipsBlock(start) == start - 2

\* anchor.py:266: where the scan goes on after a chunk without a match
NextEnd(start) == start - 1

\* anchor.py:237-242, 249-266: the query for [start, end] succeeds
FindQueryOk ==
    /\ fa.pc = "scan"
    /\ fa.end >= fa.from_block
    /\ LET start == ChunkStart(fa.from_block, fa.end, fa.chunk)
           idx == LogsIn(start, fa.end)
       IN \E bad \in SUBSET idx :
            LET m == FirstMatch(idx, bad, fa.target)
                q == [start |-> start, end |-> fa.end, chunk |-> fa.chunk, ok |-> TRUE]
            IN fa' = IF m # 0
                     THEN [fa EXCEPT !.pc = "done", !.via = "found",
                                     !.result = [matches |-> TRUE,
                                                 txid |-> chain.logs[m].transactionHash],
                                     !.queries = @ \cup {q},
                                     !.skipped = @ \/ bad # {}]
                     ELSE [fa EXCEPT !.end = NextEnd(start),
                                     !.queries = @ \cup {q},
                                     !.skipped = @ \/ bad # {}]
    /\ UNCHANGED notFa

\* anchor.py:234, 268-269: the window is exhausted
FindExhausted ==
    /\ fa.pc = "scan"
    /\ fa.end < fa.from_block
    /\ fa' = [fa EXCEPT !.pc = "done", !.result = NoMatch, !.via = "exhausted"]
    /\ UNCHANGED notFa

InitFind ==
    /\ cfg \in Configs
    /\ chain \in Chains
    /\ fa = faIdle
    /\ ab = abIdle
    /\ ks = ksEmpty
    /\ ek = [p \in Callers |-> ekIdle]
    /\ art = artEmpty
    /\ cb = cbIdle
    /\ vb = vbIdle
    /\ dz = dzIdle
    /\ SvcIdle

NextFind ==
    \/ FindCall
    \/ FindLoadContract
    \/ FindParseHash
    \/ FindReadHeight
    \/ FindQueryFail
    \/ FindQueryOk
    \/ FindExhausted

SpecFind == InitFind /\ [][NextFind]_vars

(***************************************************************************)
(* Properties of find_anchor.                                              *)
(***************************************************************************)
FaWindow == fa.from_block..fa.latest

FaScanned == fa.pc = "done" /\ fa.via \in {"found", "exhausted"}

FaCovered(b) == \E q \in fa.queries : q.ok /\ q.start <= b /\ b <= q.end

FaAllQueriesOk == \A q \in fa.queries : q.ok

\* Positions of the events of the window that carry the target hash.
FaTargets ==
    {i \in 1..Len(chain.logs) :
        /\ chain.logs[i].bundleHash = fa.target
        /\ chain.logs[i].blockNumber \in FaWindow}

\* C1: when the scan of find_anchor returns not-found, every block of the
\* lookback window has been covered by a query that succeeded: the range of a
\* failed query is queried again (in smaller chunks), never passed over.
C1_FailedRangeIsRequeried ==
    (FaScanned /\ ~fa.result.matches) => \A b \in FaWindow : FaCovered(b)

C17_ReturnsMostRecent ==
    (FaScanned /\ fa.result.matches /\ FaAllQueriesOk) =>
        \E i \in FaTargets :
            /\ fa.result.txid = chain.logs[i].transactionHash
            /\ \A j \in FaTargets : j <= i

\* C18: every log query spans at most ANCHOR_CHUNK_SIZE blocks, and the chunk
\* size in use never exceeds the configured one.
C18_ChunkNeverExceedsLimit ==
    \A q \in fa.queries :
        /\ q.chunk <= cfg.ANCHOR_CHUNK_SIZE
        /\ q.end - q.start + 1 <= cfg.ANCHOR_CHUNK_SIZE

\* C21: the scan always runs to completion inside its window: every log query
\* that leaves the scan in its loop has lowered the upper end of the range
\* still to scan by at least one block (so the loop ends after at most as many
\* queries as the window has blocks), and no query covers a block outside
\* [max(0, latest - lookback), latest].
C21_ScanTerminatesInsideWindow ==
    [][(fa.pc = "scan" /\ fa'.pc = "scan") =>
          /\ fa'.end < fa.end
          /\ \A q \in fa'.queries : \A b \in q.start..q.end : b \in FaWindow]_vars

\* C6: find_anchor never leaves by an exception, whichever collaborator fails.
C6_FindNeverRaises == fa.pc # "raised"

(***************************************************************************)
(* anchor_bundle followed by find_anchor on the same chain.                *)
(***************************************************************************)
\* blocks other senders' transactions add between the two calls
MaxNewBlocks == 2

RoundTripConfigs ==
    [CONTRACT_ADDR : {"set"}, PRIVATE_KEY : {"set"},
     LOOKBACK_BLOCKS : {1, 70}, ANCHOR_CHUNK_SIZE : {0, 30, 60}]

\* The lookup hashes: the anchored one and another one.
RoundTripArgs == {HashArg(TRUE, 64, "lower", v) : v \in HashValues}

\* The log before the call: empty, or one earlier event of either hash.
RoundTripChains ==
    {c \in Chains :
        /\ c.latest = MaxBlock
        /\ Len(c.logs) <= 1
        /\ \A i \in 1..Len(c.logs) : c.logs[i].blockNumber = MaxBlock - 1}

\* The attempts of the anchoring call with one answer of the provider to the
\* fee and gas questions, which the lookup does not depend on.
AnchorBuildPlain == AnchorBuildFrom({FeeHistory(TRUE, <<3, 7>>, <<>>)}, GasPrices, {21000})

\* anchor.py:224: the height the provider reports has grown between the calls
NewBlock ==
    /\ ab.pc = "done"
    /\ fa.pc = "idle"
    /\ chain.latest < MaxBlock + MaxAttempts + MaxNewBlocks
    /\ chain' = [chain EXCEPT !.latest = @ + 1]
    /\ UNCHANGED <<cfg, svcVars, fa, ab, keyVars, bundleVars>>

\* find_anchor is called once anchor_bundle has returned.
FindCallAfterAnchor ==
    /\ ab.pc = "done"
    /\ fa.pc = "idle"
    /\ \E arg \in RoundTripArgs : fa' = [fa EXCEPT !.pc = "load", !.arg = arg]
    /\ UNCHANGED notFa

InitRoundTrip ==
    /\ cfg \in RoundTripConfigs
    /\ chain \in RoundTripChains
    /\ fa = faIdle
    /\ ab = abIdle
    /\ ks = ksEmpty
    /\ ek = [p \in Callers |-> ekIdle]
    /\ art = artEmpty
    /\ cb = cbIdle
    /\ vb = vbIdle
    /\ dz = dzIdle
    /\ SvcIdle

NextRoundTrip ==
    \/ AnchorCall
    \/ AnchorPrecheck
    \/ AnchorBuildPlain
    \/ AnchorSend
    \/ AnchorWait
    \/ AnchorRaise
    \/ ChainIncludesStale
    \/ NewBlock
    \/ FindCallAfterAnchor
    \/ FindLoadContract
    \/ FindParseHash
    \/ FindReadHeight
    \/ FindQueryFail
    \/ FindQueryOk
    \/ FindExhausted

SpecRoundTrip == InitRoundTrip /\ [][NextRoundTrip]_vars

\* the hash the lookup was called with
RtLookup == Hex32FromPrefixed(fa.arg).val

\* the window of a lookup made at the current height
RtWindow == Max2(0, chain.latest - cfg.LOOKBACK_BLOCKS)..chain.latest

RtAnchoredThenLooked == ab.pc = "done" /\ fa.pc \in {"done", "raised"}

RtNeverAnchored(h) == \A i \in 1..Len(chain.logs) : chain.logs[i].bundleHash # h

\* What the round trip promises for a lookup that has ended.
RtExpected ==
    /\ (RtLookup = ab.hash /\ ab.result.block \in RtWindow) =>
          /\ fa.pc = "done"
          /\ fa.result = [matches |-> TRUE, txid |-> ab.result.txid]
    /\ RtNeverAnchored(RtLookup) =>
          /\ fa.pc = "done"
          /\ fa.result = NoMatch

\* C22: after anchor_bundle(H) has returned (tx, block), a following
\* find_anchor(H) whose lookback window contains that block returns
\* matches=True with txid = tx, and find_anchor(H2) for a hash that was never
\* anchored returns matches=False.
C22_AnchorThenFindRoundTrip == RtAnchoredThenLooked => RtExpected

\* The same round trip for the lookups in which every provider call and every
\* decoding succeeded.
RoundTripWhenProviderAnswers ==
    (RtAnchoredThenLooked /\ FaScanned /\ FaAllQueriesOk /\ ~fa.skipped) => RtExpected

(***************************************************************************)
(* _ensure_keys: the steps of a call.                                      *)
(***************************************************************************)
\* bundle.py:230 and any other caller: the function is entered
EkCall(p) ==
    /\ ek[p].pc \in {"idle", "done", "raised"}
    /\ ek[p].calls < MaxCalls
    /\ ek' = [ek EXCEPT ![p] = [ekIdle EXCEPT !.pc = "env", !.calls = ek[p].calls + 1]]
    /\ UNCHANGED <<cfg, svcVars, chain, fa, ab, ks, bundleVars>>

\* bundle.py:83-97: the external seed file exists: its first 32 bytes are the
\* seed, and the external document is used when that file exists
EkEnv(p) ==
    /\ ek[p].pc = "env"
    /\ ek' = IF ks.env_sk.exists
             THEN IF ks.env_sk_len \notin {32, 64}
                  THEN [ek EXCEPT ![p].pc = "raised"]
                  ELSE Returned(p, ks.env_sk.data,
                                IF ks.env_pk.exists THEN ks.env_pk.data
                                ELSE ToPem(PubOf(ks.env_sk.data)),
                                "external")
             ELSE [ek EXCEPT ![p].pc = "chk_sk"]
    /\ UNCHANGED <<cfg, svcVars, chain, fa, ab, ks, bundleVars>>

\* bundle.py:101  DEV_SK_HEX.exists()
EkCheckSk(p) ==
    /\ ek[p].pc = "chk_sk"
    /\ ek' = [ek EXCEPT ![p].pc = IF ks.dev_sk.exists THEN "chk_pk" ELSE "gen",
                        ![p].at_check = [sk |-> ks.dev_sk.exists, pk |-> ks.dev_pk.exists]]
    /\ UNCHANGED <<cfg, svcVars, chain, fa, ab, ks, bundleVars>>

\* bundle.py:101  and DEV_PK_PEM.exists()
EkCheckPk(p) ==
    /\ ek[p].pc = "chk_pk"
    /\ ek' = [ek EXCEPT ![p].pc = IF ks.dev_pk.exists THEN "read_sk" ELSE "gen",
                        ![p].at_check.pk = ks.dev_pk.exists]
    /\ UNCHANGED <<cfg, svcVars, chain, fa, ab, ks, bundleVars>>

\* bundle.py:102-104
EkReadSk(p) ==
    /\ ek[p].pc = "read_sk"
    /\ ek' = [ek EXCEPT ![p].pc = "read_pk", ![p].seed = ks.dev_sk.data]
    /\ UNCHANGED <<cfg, svcVars, chain, fa, ab, ks, bundleVars>>

\* bundle.py:105-106
EkReadPk(p) ==
    /\ ek[p].pc = "read_pk"
    /\ ek' = Returned(p, ek[p].seed, ks.dev_pk.data, "persisted")
    /\ UNCHANGED <<cfg, svcVars, chain, fa, ab, ks, bundleVars>>

\* bundle.py:108-110: a fresh random seed
EkGenerate(p) ==
    /\ ek[p].pc = "gen"
    /\ LET seed == ks.ngen + 1 IN
       /\ ek' = [ek EXCEPT ![p].pc = "write_sk", ![p].seed = seed,
                           ![p].pem = ToPem(PubOf(seed))]
       /\ ks' = [ks EXCEPT !.ngen = seed]
    /\ UNCHANGED <<cfg, svcVars, chain, fa, ab, bundleVars>>

\* bundle.py:111
EkWriteSk(p) ==
    /\ ek[p].pc = "write_sk"
    /\ ks' = [ks EXCEPT !.dev_sk = File(ek[p].seed),
                        !.first_sk = IF ks.dev_sk.exists THEN @ ELSE ek[p].seed]
    /\ ek' = [ek EXCEPT ![p].pc = "write_pk"]
    /\ UNCHANGED <<cfg, svcVars, chain, fa, ab, bundleVars>>

\* bundle.py:112-113
EkWritePk(p) ==
    /\ ek[p].pc = "write_pk"
    /\ ks' = [ks EXCEPT !.dev_pk = File(ek[p].pem)]
    /\ ek' = Returned(p, ek[p].seed, ek[p].pem, "generated")
    /\ UNCHANGED <<cfg, svcVars, chain, fa, ab, bundleVars>>

\* The caller is interrupted between its two file writes (the process is
\* killed and started again).
EkInterrupted(p) ==
    /\ ek[p].pc = "write_pk"
    /\ ek' = [ek EXCEPT ![p].pc = "idle"]
    /\ ks' = [ks EXCEPT !.crashed = TRUE]
    /\ UNCHANGED <<cfg, svcVars, chain, fa, ab, bundleVars>>

EnsureKeysStep(p) ==
    \/ EkEnv(p)
    \/ EkCheckSk(p)
    \/ EkCheckPk(p)
    \/ EkReadSk(p)
    \/ EkReadPk(p)
    \/ EkGenerate(p)
    \/ EkWriteSk(p)
    \/ EkWritePk(p)

\* The key files a process can start with: no external seed or one of 32, 64
\* or another number of bytes, with or without an external document; the
\* local pair absent or persisted by an earlier run.
KeyStores ==
    {[ksEmpty EXCEPT !.env_sk = e.sk, !.env_sk_len = e.len, !.env_pk = e.pk,
                     !.dev_sk = d.sk, !.dev_pk = d.pk, !.preexisting = d.sk.exists,
                     !.first_sk = d.sk.data] :
        e \in {[sk |-> NoFile, len |-> 0, pk |-> NoFile],
               [sk |-> NoFile, len |-> 0, pk |-> File(ToPem(PubOf(91)))]}
              \cup {[sk |-> File(sd), len |-> n, pk |-> pk] :
                        sd \in EnvSeeds, n \in {31, 32, 64},
                        pk \in {NoFile, File(ToPem(PubOf(91)))}},
        d \in {[sk |-> NoFile, pk |-> NoFile],
               [sk |-> File(77), pk |-> File(ToPem(PubOf(77)))]}}

InitKeys ==
    /\ cfg \in AnchorConfigs /\ cfg.CONTRACT_ADDR = "set" /\ cfg.PRIVATE_KEY = "set"
    /\ chain \in {c \in Chains : c.latest = MaxBlock /\ Len(c.logs) = 0}
    /\ fa = faIdle
    /\ ab = abIdle
    /\ ks \in KeyStores
    /\ ek = [p \in Callers |-> ekIdle]
    /\ art = artEmpty
    /\ cb = cbIdle
    /\ vb = vbIdle
    /\ dz = dzIdle
    /\ SvcIdle

NextKeys ==
    \/ \E p \in Callers : EkCall(p)
    \/ \E p \in Callers : EnsureKeysStep(p)
    \/ \E p \in Callers : EkInterrupted(p)

SpecKeys == InitKeys /\ [][NextKeys]_vars

\* C2: two callers that enter _ensure_keys with no external seed and no
\* persisted pair return the same keypair, and it is the one persisted.
C2_RaceOneKeypair ==
    \A p \in Callers : \A q \in Callers :
        (/\ ~ks.env_sk.exists /\ ~ks.preexisting /\ ~ks.crashed
         /\ ek[p].pc = "done" /\ ek[q].pc = "done"
         /\ ek[p].calls = 1 /\ ek[q].calls = 1)
        => /\ ek[p].ret = ek[q].ret
           /\ ks.dev_sk = File(ek[p].ret.seed)
           /\ ks.dev_pk = File(ek[p].ret.pem)
           /\ ks.ngen = 1

\* the document encodes the verify key of the seed
PemMatches(seed, pem) == pem = ToPem(PubOf(seed))

\* C28: in every reachable state of the local key store the persisted
\* public-key document encodes the public key of the persisted seed, and in
\* every tuple _ensure_keys returns the document encodes the public key of
\* the returned signing key, so that a signature made with the returned key
\* verifies under the returned document.
C28_StoredAndReturnedPairsMatch ==
    /\ (ks.dev_sk.exists /\ ks.dev_pk.exists) => PemMatches(ks.dev_sk.data, ks.dev_pk.data)
    /\ \A p \in Callers : ek[p].pc = "done" =>
          /\ PemMatches(ek[p].ret.seed, ek[p].ret.pem)
          /\ VerifySig(PemToRaw(ek[p].ret.pem), 7, Sign(ek[p].ret.seed, 7))

C15_SeedNeverRotated ==
    /\ ks.dev_sk.exists => ks.dev_sk.data = ks.first_sk
    /\ \A p \in Callers :
          (ek[p].pc = "done" /\ ek[p].path = "persisted") =>
              /\ ek[p].ret.seed = ks.first_sk
              /\ ek[p].ret.pk_raw = PubOf(ks.first_sk)

(***************************************************************************)
(* create_bundle (bundle.py:154-257).                                      *)
(***************************************************************************)
\* the caller of _ensure_keys that create_bundle is
CbCaller == 1

\* main.py:241: the call is entered with a receipt dict and the XML
CreateCall ==
    /\ cb.pc = "idle"
    /\ \E r \in Receipts : \E x \in XmlDocs :
        cb' = [cb EXCEPT !.pc = "start", !.receipt = r, !.xml_bytes = x]
    /\ UNCHANGED <<cfg, svcVars, chain, fa, ab, keyVars, art, vb, dz>>

\* bundle.py:165-224: receipt["id"] raises KeyError for an absent key; every
\* other field is read with .get; the output directory is made, the JSON
\* files and the manifest are computed.
CreateSerialize ==
    /\ cb.pc = "start"
    /\ IF cb.receipt["id"] = 0
       THEN /\ cb' = [cb EXCEPT !.pc = "raised"]
            /\ UNCHANGED art
       ELSE LET rj == JsonOfFields(Fields, cb.receipt)
                tj == JsonOfFields(TipFields, cb.receipt)
            IN /\ cb' = [cb EXCEPT
                          !.pc = "keys",
                          !.rid = cb.receipt["id"],
                          !.receipt_json = rj,
                          !.tip_json = tj,
                          !.manifest_json =
                              ManifestJson(cb.receipt, cb.receipt["id"],
                                           FilesForManifest(cb.xml_bytes, rj, tj))]
               /\ art' = [art EXCEPT !.dir = TRUE]
    /\ UNCHANGED <<cfg, svcVars, chain, fa, ab, keyVars, vb, dz>>

\* bundle.py:230: _ensure_keys is called
CreateEnsureKeys ==
    /\ cb.pc = "keys"
    /\ ek[CbCaller].pc = "idle"
    /\ ek' = [ek EXCEPT ![CbCaller] = [ekIdle EXCEPT !.pc = "env", !.calls = 1]]
    /\ cb' = [cb EXCEPT !.pc = "keys_wait"]
    /\ UNCHANGED <<cfg, svcVars, chain, fa, ab, ks, art, vb, dz>>

\* bundle.py:230: an exception of _ensure_keys leaves create_bundle
CreateKeysFailed ==
    /\ cb.pc = "keys_wait"
    /\ ek[CbCaller].pc = "raised"
    /\ cb' = [cb EXCEPT !.pc = "raised"]
    /\ UNCHANGED <<cfg, svcVars, chain, fa, ab, keyVars, art, vb, dz>>

\* bundle.py:230-245: the file map is packed, evidence.zip is written and the
\* bundle hash is computed
CreatePack ==
    /\ cb.pc = "keys_wait"
    /\ ek[CbCaller].pc = "done"
    /\ LET keys == ek[CbCaller].ret
           z == DeterministicZip(FileMap(cb.xml_bytes, cb.receipt_json, cb.tip_json,
                                         cb.manifest_json, keys.pem))
       IN /\ cb' = [cb EXCEPT !.pc = "sign", !.keys = keys, !.zip_bytes = z,
                              !.bundle_hash = Sha256Hex(z)]
          /\ art' = [art EXCEPT !.zip = File(z)]
    /\ UNCHANGED <<cfg, svcVars, chain, fa, ab, keyVars, vb, dz>>

\* bundle.py:246-257: the digest is signed, signature.sig and pain001.xml are
\* written, (zip_path, bundle_hash) is returned
CreateSign ==
    /\ cb.pc = "sign"
    /\ art' = [art EXCEPT
                 !.sig = File(HexOf(Sign(cb.keys.seed, RawDigest(cb.bundle_hash)))),
                 !.xml = File(cb.xml_bytes)]
    /\ cb' = [cb EXCEPT !.pc = "done"]
    /\ UNCHANGED <<cfg, svcVars, chain, fa, ab, keyVars, vb, dz>>

(***************************************************************************)
(* _deterministic_zip (bundle.py:131-151) called on its own.               *)
(***************************************************************************)
\* bundle.py:140-149: the directory is made and the archive is built in
\* memory from the sorted names
DzPack ==
    /\ dz.pc = "idle"
    /\ dz' = [dz EXCEPT !.pc = "write", !.mem = DeterministicZip(dz.file_map),
                        !.old = art.zip]
    /\ art' = [art EXCEPT !.dir = TRUE]
    /\ UNCHANGED <<cfg, svcVars, chain, fa, ab, keyVars, cb, vb>>

\* bundle.py:150-151: the bytes replace what is at out_path and are returned
DzWrite ==
    /\ dz.pc = "write"
    /\ art' = [art EXCEPT !.zip = File(dz.mem)]
    /\ dz' = [dz EXCEPT !.pc = "done", !.ret = dz.mem]
    /\ UNCHANGED <<cfg, svcVars, chain, fa, ab, keyVars, cb, vb>>

\* what may lie at out_path before the call: nothing, a file that is no
\* archive, an archive of an earlier call
OldArchives ==
    {[exists |-> FALSE, data |-> NotAZip], File(NotAZip),
     File(DeterministicZip(<<Pair("tip.json", <<2, 3>>), Pair("pain001.xml", <<1>>)>>))}

InitZip ==
    /\ cfg \in AnchorConfigs /\ cfg.CONTRACT_ADDR = "set" /\ cfg.PRIVATE_KEY = "set"
    /\ chain \in {c \in Chains : c.latest = MaxBlock /\ Len(c.logs) = 0}
    /\ fa = faIdle
    /\ ab = abIdle
    /\ ks = ksEmpty
    /\ ek = [p \in Callers |-> ekIdle]
    /\ \E old \in OldArchives : art = [artEmpty EXCEPT !.dir = old.exists, !.zip = old]
    /\ cb = cbIdle
    /\ vb = vbIdle
    /\ \E m \in FileMaps : dz = [dzIdle EXCEPT !.file_map = m]
    /\ SvcIdle

NextZip ==
    \/ DzPack
    \/ DzWrite

SpecZip == InitZip /\ [][NextZip]_vars

\* The mappings with the items of m in another insertion order.
Reordered(m) ==
    {[i \in 1..Len(m) |-> m[f[i]]] :
        f \in {g \in [1..Len(m) -> 1..Len(m)] : \A i, j \in 1..Len(m) : g[i] = g[j] => i = j}}

\* C13: the archive _deterministic_zip returns depends on the name-to-bytes
\* mapping only: every insertion order of the same items gives the same
\* archive, whatever was at the output path; its entries are in ascending
\* name order, each with the fixed timestamp, the fixed permission bits and
\* no compression; the file written is the archive returned, so the bundle
\* hash is the same.
C13_ZipDependsOnMappingOnly ==
    dz.pc = "done" =>
        /\ \A m \in Reordered(dz.file_map) :
              /\ DeterministicZip(m) = dz.ret
              /\ Sha256Hex(DeterministicZip(m)) = Sha256Hex(dz.ret)
        /\ Len(dz.ret.entries) = Len(dz.file_map)
        /\ \A i \in 1..Len(dz.file_map) :
              \E k \in 1..Len(dz.ret.entries) :
                  /\ dz.ret.entries[k].name = dz.file_map[i].name
                  /\ dz.ret.entries[k].data = dz.file_map[i].data
        /\ \A k \in 1..Len(dz.ret.entries) :
              /\ dz.ret.entries[k].date_time = <<1980, 1, 1, 0, 0, 0>>
              /\ dz.ret.entries[k].mode = "0644"
              /\ dz.ret.entries[k].method = "stored"
              /\ \A l \in 1..Len(dz.ret.entries) :
                    k < l => NameRank(dz.ret.entries[k].name) < NameRank(dz.ret.entries[l].name)
        /\ art.zip = File(dz.ret)

\* C13 witness: three files handed over in descending name order were packed
\* over an archive of an earlier call.
C13_Witness ==
    /\ dz.pc = "done"
    /\ Len(dz.file_map) = 3
    /\ NameRank(dz.file_map[1].name) > NameRank(dz.file_map[2].name)
    /\ NameRank(dz.file_map[2].name) > NameRank(dz.file_map[3].name)
    /\ dz.old.exists /\ dz.old.data.zip
    /\ art.zip.data # dz.old.data

(***************************************************************************)
(* The stored archive is altered behind the service's back, after          *)
(* create_bundle has returned and before the verification that downloads   *)
(* it is called.                                                           *)
(***************************************************************************)
\* One byte of a file is changed (the length stays); for the key document
\* the encoded key changes; the manifest is left unparseable.
Corrupt(name, data) ==
    IF name = "manifest.json" THEN [data EXCEPT !.json = "broken"]
    ELSE IF name = "public_key.pem" THEN [data EXCEPT !.b64 = @ + 4]
    ELSE [data EXCEPT ![1] = @ + 5]

TamperFile ==
    /\ art.zip.exists /\ art.zip.data.zip
    /\ cb.pc = "done" /\ vb.pc = "idle"
    /\ art.ntamper < MaxTamper
    /\ \E i \in 1..Len(art.zip.data.entries) :
        LET e == art.zip.data.entries[i] IN
        art' = [art EXCEPT !.zip.data.entries[i].data = Corrupt(e.name, e.data),
                           !.ntamper = @ + 1]
    /\ UNCHANGED <<cfg, svcVars, chain, fa, ab, keyVars, cb, vb, dz>>

\* One file is taken out of the archive.
RemoveAt(seq, i) == SubSeq(seq, 1, i - 1) \o SubSeq(seq, i + 1, Len(seq))

TamperRemove ==
    /\ art.zip.exists /\ art.zip.data.zip
    /\ cb.pc = "done" /\ vb.pc = "idle"
    /\ art.ntamper < MaxTamper
    /\ \E i \in 1..Len(art.zip.data.entries) :
        art' = [art EXCEPT !.zip.data.entries = RemoveAt(@, i), !.ntamper = @ + 1]
    /\ UNCHANGED <<cfg, svcVars, chain, fa, ab, keyVars, cb, vb, dz>>

TamperGarbage ==
    /\ art.zip.exists /\ art.zip.data.zip
    /\ cb.pc = "done" /\ vb.pc = "idle"
    /\ art.ntamper < MaxTamper
    /\ art' = [art EXCEPT !.zip.data = NotAZip, !.ntamper = @ + 1]
    /\ UNCHANGED <<cfg, svcVars, chain, fa, ab, keyVars, cb, vb, dz>>

(***************************************************************************)
(* verify_bundle (bundle.py:260-354).                                      *)
(***************************************************************************)
Err(code, name) == [code |-> code, name |-> name]

\* bundle.py:274  bundle_hash=""
EmptyStr == [prefix |-> "", digest |-> NotAZip]

ZipNames(z) == {z.entries[i].name : i \in 1..Len(z.entries)}

ZipData(z, name) == z.entries[CHOOSE i \in 1..Len(z.entries) : z.entries[i].name = name].data

\* bundle.py:288-294  read(name): the bytes, or b"" and a missing_file error
ReadErrs(z, name) == IF name \in ZipNames(z) THEN <<>> ELSE <<Err("missing_file", name)>>
ReadBytes(z, name) == IF name \in ZipNames(z) THEN ZipData(z, name) ELSE <<>>

HashDiffersSizeOnly(actual, expected_sha) == Len(actual) # Len(expected_sha.digest)

\* bundle.py:312-313
HashDiffers(actual, expected_sha) == Sha256Hex(actual) # expected_sha

\* bundle.py:305-314: the errors of the manifest entries from the i-th on
RECURSIVE EntryErrs(_, _, _)
EntryErrs(z, files, i) ==
    IF i > Len(files) THEN <<>>
    ELSE LET name == files[i].name
             here == ReadErrs(z, name)
                     \o (IF HashDiffers(ReadBytes(z, name), files[i].sha256)
                         THEN <<Err("file_hash_mismatch", name)>> ELSE <<>>)
         IN here \o EntryErrs(z, files, i + 1)

ManifestErrsStopAtFirst(z) ==
    IF "manifest.json" \notin ZipNames(z) THEN <<Err("manifest_invalid", "")>>
    ELSE LET m == ZipData(z, "manifest.json") IN
         IF m.json # "valid" THEN <<Err("manifest_invalid", "")>>
         ELSE LET all == EntryErrs(z, m.files, 1)
              IN IF Len(all) = 0 THEN <<>> ELSE <<all[1]>>

\* bundle.py:303-316
ManifestErrs(z) ==
    IF "manifest.json" \notin ZipNames(z) THEN <<Err("manifest_invalid", "")>>
    ELSE LET m == ZipData(z, "manifest.json") IN
         IF m.json # "valid" THEN <<Err("manifest_invalid", "")>>
         ELSE EntryErrs(z, m.files, 1)

\* the vendored schema accepts the document
XmlValid(doc) == Len(doc) > 0 /\ doc[1] = 1 /\ doc[2] \in {2, 3}

\* bundle.py:296-300: the five reads, in order
FirstReads == <<"manifest.json", "pain001.xml", "receipt.json", "tip.json", "public_key.pem">>

RECURSIVE FirstReadErrs(_, _)
FirstReadErrs(z, i) ==
    IF i > Len(FirstReads) THEN <<>>
    ELSE ReadErrs(z, FirstReads[i]) \o FirstReadErrs(z, i + 1)

\* A keypair that is not the service's.
ForgerSeed == 77

\* The archive with one content file altered, the manifest entries
\* recomputed over the altered files and the other keypair's key document
\* in place of the service's.
Repack(z, name) ==
    LET content(n) == IF n = name THEN Corrupt(n, ZipData(z, n)) ELSE ZipData(z, n)
        m == ZipData(z, "manifest.json")
        manifest == [m EXCEPT !.files =
                        [i \in 1..Len(m.files) |->
                            ManifestEntry(Pair(m.files[i].name, content(m.files[i].name)))]]
    IN DeterministicZip(FileMap(content("pain001.xml"), content("receipt.json"),
                                content("tip.json"), manifest, ToPem(PubOf(ForgerSeed))))

\* The stored archive is replaced by a re-packed one and the signature file
\* by the other keypair's signature of the new archive's digest.
TamperForge ==
    /\ art.zip.exists /\ art.zip.data.zip
    /\ cb.pc = "done" /\ vb.pc = "idle"
    /\ art.ntamper < MaxTamper
    /\ \A n \in {"manifest.json", "pain001.xml", "receipt.json", "tip.json"} :
          n \in ZipNames(art.zip.data)
    /\ ZipData(art.zip.data, "manifest.json").json = "valid"
    /\ \E name \in {"pain001.xml", "receipt.json", "tip.json"} :
        LET z == Repack(art.zip.data, name) IN
        art' = [art EXCEPT !.zip.data = z,
                           !.sig = File(HexOf(Sign(ForgerSeed, RawDigest(Sha256Hex(z))))),
                           !.ntamper = @ + 1]
    /\ UNCHANGED <<cfg, svcVars, chain, fa, ab, keyVars, cb, vb, dz>>

\* main.py:435, live_ui_test.py:81: the call is entered with the bundle's URL
VerifyCall ==
    /\ vb.pc = "idle"
    /\ vb' = [vb EXCEPT !.pc = "download"]
    /\ UNCHANGED <<cfg, svcVars, chain, fa, ab, keyVars, art, cb, dz>>

\* bundle.py:269-282: the request fails (or the file is not there) and a
\* result with an empty hash is returned; or the body stream breaks midway,
\* outside any try block; or the body is received and hashed.
VerifyDownload ==
    /\ vb.pc = "download"
    /\ \/ vb' = [vb EXCEPT !.pc = "done",
                           !.result = [bundle_hash |-> EmptyStr,
                                       errors |-> <<Err("download_failed", "")>>]]
       \/ /\ art.zip.exists
          /\ vb' = [vb EXCEPT !.pc = "raised"]
       \/ /\ art.zip.exists
          /\ vb' = [vb EXCEPT !.pc = "open", !.received = art.zip.data,
                              !.bundle_hash = Sha256Hex(art.zip.data)]
    /\ UNCHANGED <<cfg, svcVars, chain, fa, ab, keyVars, art, cb, dz>>

\* bundle.py:285-330: the archive cannot be opened and the result is returned
\* at once; or the files are read, the manifest entries are checked and the
\* XML is validated when a schema is there.
VerifyOpen ==
    /\ vb.pc = "open"
    /\ IF ~vb.received.zip
       THEN vb' = [vb EXCEPT !.pc = "done",
                             !.errors = <<Err("zip_open_failed", "")>>,
                             !.result = [bundle_hash |-> vb.bundle_hash,
                                         errors |-> <<Err("zip_open_failed", "")>>]]
       ELSE \E schema \in BOOLEAN :
            LET z == vb.received
                xml == ReadBytes(z, "pain001.xml")
                xmlErrs == IF schema /\ xml # <<>> /\ ~XmlValid(xml)
                           THEN <<Err("xml_invalid", "")>> ELSE <<>>
            IN vb' = [vb EXCEPT !.pc = "sig", !.schema = schema,
                                !.errors = FirstReadErrs(z, 1) \o ManifestErrs(z) \o xmlErrs,
                                !.pk_pem = IF "public_key.pem" \in ZipNames(z)
                                           THEN ZipData(z, "public_key.pem")
                                           ELSE ToPem(0)]
    /\ UNCHANGED <<cfg, svcVars, chain, fa, ab, keyVars, art, cb, dz>>

\* bundle.py:332-354: nacl is not installed; or the signature cannot be
\* fetched, or the embedded key document is empty (VerifyKey raises); or the
\* signature is fetched and checked against the embedded key.
VerifySignature ==
    /\ vb.pc = "sig"
    /\ \E e \in {<<Err("signature_check_unavailable", "")>>,
                  <<Err("signature_check_failed", "")>>}
              \cup (IF art.sig.exists /\ vb.pk_pem # ToPem(0)
                    THEN {IF VerifySig(PemToRaw(vb.pk_pem), RawDigest(vb.bundle_hash),
                                       FromHex(art.sig.data))
                          THEN <<>> ELSE <<Err("signature_invalid", "")>>}
                    ELSE {}) :
        vb' = [vb EXCEPT !.pc = "done", !.errors = @ \o e,
                         !.result = [bundle_hash |-> vb.bundle_hash,
                                     errors |-> vb.errors \o e]]
    /\ UNCHANGED <<cfg, svcVars, chain, fa, ab, keyVars, art, cb, dz>>

InitBundle ==
    /\ cfg \in AnchorConfigs /\ cfg.CONTRACT_ADDR = "set" /\ cfg.PRIVATE_KEY = "set"
    /\ chain \in {c \in Chains : c.latest = MaxBlock /\ Len(c.logs) = 0}
    /\ fa = faIdle
    /\ ab = abIdle
    /\ ks \in {k \in KeyStores : /\ ~k.env_pk.exists
                                 /\ k.env_sk_len \in {0, 31, 32}
                                 /\ k.env_sk.data \in {0, 91}}
    /\ ek = [p \in Callers |-> ekIdle]
    /\ art = artEmpty
    /\ cb = cbIdle
    /\ vb = vbIdle
    /\ dz = dzIdle
    /\ SvcIdle

NextBundle ==
    \/ CreateCall
    \/ CreateSerialize
    \/ CreateEnsureKeys
    \/ EnsureKeysStep(CbCaller)
    \/ CreateKeysFailed
    \/ CreatePack
    \/ CreateSign
    \/ TamperFile
    \/ TamperRemove
    \/ TamperGarbage
    \/ TamperForge
    \/ VerifyCall
    \/ VerifyDownload
    \/ VerifyOpen
    \/ VerifySignature

SpecBundle == InitBundle /\ [][NextBundle]_vars

(***************************************************************************)
(* Properties of create_bundle and verify_bundle.                          *)
(***************************************************************************)
\* C7: verify_bundle never leaves by an exception, and the result it returns
\* carries the 0x-prefixed digest of the bytes received, on every failure.
C7_VerifyAlwaysCarriesHash ==
    /\ vb.pc # "raised"
    /\ vb.pc = "done" => vb.result.bundle_hash = Sha256Hex(vb.received)

\* The archive create_bundle returned has been downloaded and opened.
VbOpened == cb.pc \in {"sign", "done"} /\ vb.pc \in {"sig", "done"} /\ vb.received.zip

\* Names of the archived files whose downloaded content is not the content
\* create_bundle packed (or that are no longer in the archive).
VbChanged ==
    {n \in ZipNames(cb.zip_bytes) :
        \/ n \notin ZipNames(vb.received)
        \/ ZipData(vb.received, n) # ZipData(cb.zip_bytes, n)}

VbMismatches == SelectSeq(vb.errors, LAMBDA e : e.code = "file_hash_mismatch")

ManifestNames == {"pain001.xml", "receipt.json", "tip.json"}

CbManifest == ZipData(cb.zip_bytes, "manifest.json")

CbEntryNames == {CbManifest.files[i].name : i \in 1..Len(CbManifest.files)}

\* Every entry is (name, size, sha256) of the bytes packed under its name, no
\* name has two entries, the entries are in ascending name order, and the
\* manifest was in hand before evidence.zip was written.
CbEntriesExact ==
    /\ \A i \in 1..Len(CbManifest.files) :
          LET e == CbManifest.files[i] IN
          /\ e.name \in ZipNames(cb.zip_bytes)
          /\ e.size = Len(ZipData(cb.zip_bytes, e.name))
          /\ e.sha256 = Sha256Hex(ZipData(cb.zip_bytes, e.name))
    /\ \A i \in 1..Len(CbManifest.files) : \A j \in 1..Len(CbManifest.files) :
          i < j => NameRank(CbManifest.files[i].name) < NameRank(CbManifest.files[j].name)

CbManifestFirst ==
    cb.pc \in {"keys", "keys_wait"} =>
        /\ ~art.zip.exists
        /\ Len(cb.manifest_json.files) = 3

\* C9 as stated: the manifest has an entry for every packed file except
\* manifest.json.
C9_EntryForEveryFile ==
    cb.pc \in {"sign", "done"} =>
        /\ CbEntryNames = ZipNames(cb.zip_bytes) \ {"manifest.json"}
        /\ CbEntriesExact

\* C9 amended: the manifest has one entry (name, size, sha256) for every
\* packed file except manifest.json and public_key.pem, each computed before
\* packing from exactly the bytes that are packed, in ascending name order.
C9_EntryForEveryContentFile ==
    /\ CbManifestFirst
    /\ cb.pc \in {"sign", "done"} =>
          /\ CbEntryNames = ZipNames(cb.zip_bytes) \ {"manifest.json", "public_key.pem"}
          /\ CbEntriesExact
          /\ CbManifest = cb.manifest_json

\* C9 witness: create_bundle has returned an archive of five files.
C9_Witness ==
    /\ cb.pc = "done"
    /\ art.zip.exists /\ art.ntamper = 0
    /\ Cardinality(ZipNames(art.zip.data)) = 5
    /\ Len(ZipData(art.zip.data, "manifest.json").files) = 3

\* The pass over the archive create_bundle wrote has returned.
VbPassed == VbOpened /\ vb.pc = "done"

VbHas(e) == \E i \in 1..Len(vb.result.errors) : vb.result.errors[i] = e

VbSigErrs ==
    {Err("signature_check_unavailable", ""), Err("signature_check_failed", ""),
     Err("signature_invalid", "")}

\* The archive downloaded by the verification is a re-packed one: it embeds
\* the other keypair's key document and the signature file holds that
\* keypair's signature.
VbForged ==
    /\ VbOpened /\ vb.pc = "done"
    /\ "public_key.pem" \in ZipNames(vb.received)
    /\ ZipData(vb.received, "public_key.pem") = ToPem(PubOf(ForgerSeed))
    /\ art.sig.exists /\ FromHex(art.sig.data).signer = PubOf(ForgerSeed)

\* C29: a verification returns an empty error list only for a bundle whose
\* signature was made with the key create_bundle signed with; a re-packed
\* archive with altered content, a recomputed manifest, another keypair's
\* public key embedded and that keypair's signature is reported with a
\* signature error.
C29_PassOnlyForServiceKey ==
    (VbOpened /\ vb.pc = "done" /\ cb.pc = "done") =>
        /\ vb.result.errors = <<>> =>
              art.sig.exists /\ FromHex(art.sig.data).signer = PubOf(cb.keys.seed)
        /\ VbForged => \E e \in VbSigErrs : VbHas(e)

C10_MissingFieldIsFatal ==
    (cb.pc # "idle" /\ MissingFields(cb.receipt) # {}) =>
        /\ cb.pc \notin {"sign", "done"}
        /\ ~art.zip.exists
        /\ ~art.sig.exists

(***************************************************************************)
(* record_tip (main.py:159-207).                                           *)
(***************************************************************************)
\* The positions of the rows with the pair of the payload.
RowsOfPair(pair) == {i \in 1..Len(db) : PairOf(db[i]) = pair}

ViolatesUniqueReference(payload) ==
    \E i \in 1..Len(db) : db[i].reference = payload.reference

\* models.py:59, 84-85: reference is unique, and so is (chain, tip_tx_hash)
ViolatesUnique(payload) ==
    \E i \in 1..Len(db) :
        \/ PairOf(db[i]) = PairOf(payload)
        \/ db[i].reference = payload.reference

RequestsMade == rt["c1"].calls + rt["c2"].calls

\* A request arrives, with or without a valid project API key.
RtCall(c) ==
    /\ rt[c].pc \in {"idle", "done", "raised"}
    /\ RequestsMade < MaxRequests
    /\ \E payload \in TipPayloads : \E keyed \in BOOLEAN :
         rt' = [rt EXCEPT ![c] = [rtIdle EXCEPT !.pc = "auth",
                                                !.payload = payload,
                                                !.keyed = keyed,
                                                !.calls = rt[c].calls + 1,
                                                !.recorded = RowsOfPair(PairOf(payload)) # {}]]
    /\ UNCHANGED <<cfg, chain, fa, ab, keyVars, bundleVars, hubVars, ve, db, pr>>

\* main.py:167-169
RtAuth(c) ==
    /\ rt[c].pc = "auth"
    /\ rt' = [rt EXCEPT ![c].pc = IF rt[c].keyed THEN "query" ELSE "raised"]
    /\ UNCHANGED <<cfg, chain, fa, ab, keyVars, bundleVars, hubVars, ve, db, pr>>

\* main.py:171-180: the look-up of the pair; an existing receipt is answered
\* with its id and status.
RtQuery(c) ==
    /\ rt[c].pc = "query"
    /\ LET found == RowsOfPair(PairOf(rt[c].payload)) IN
       rt' = IF found # {}
             THEN LET existing == db[CHOOSE i \in found : TRUE] IN
                  [rt EXCEPT ![c].pc = "done",
                             ![c].resp = [receipt_id |-> existing.id,
                                          status |-> existing.status]]
             ELSE [rt EXCEPT ![c].pc = "insert"]
    /\ UNCHANGED <<cfg, chain, fa, ab, keyVars, bundleVars, hubVars, ve, db, pr>>

\* main.py:182-200: the row is added and committed; the commit raises when a
\* unique constraint of the table is violated.
RtCommit(c) ==
    /\ rt[c].pc = "insert"
    /\ IF ViolatesUnique(rt[c].payload)
       THEN /\ rt' = [rt EXCEPT ![c].pc = "raised"]
            /\ UNCHANGED db
       ELSE /\ db' = Append(db, NewReceipt(Len(db) + 1, rt[c].payload))
            /\ rt' = [rt EXCEPT ![c].pc = "schedule", ![c].created = Len(db) + 1]
    /\ UNCHANGED <<cfg, chain, fa, ab, keyVars, bundleVars, hubVars, ve, pr>>

\* main.py:203-207: the background task is added and the request answered
RtSchedule(c) ==
    /\ rt[c].pc = "schedule"
    /\ pr' = [pr EXCEPT ![rt[c].created].pc = "scheduled"]
    /\ rt' = [rt EXCEPT ![c].pc = "done",
                        ![c].scheduled = rt[c].created,
                        ![c].resp = [receipt_id |-> rt[c].created, status |-> "pending"]]
    /\ UNCHANGED <<cfg, chain, fa, ab, keyVars, bundleVars, hubVars, ve, db>>

(***************************************************************************)
(* _process_receipt (main.py:210-365).                                     *)
(***************************************************************************)
\* create_bundle's hash covers receipt.json, which holds the receipt id
BundleHashOf(rid) == rid

\* main.py:212-217: the task starts and loads the receipt
PrGet(rid) ==
    /\ pr[rid].pc = "scheduled"
    /\ pr' = IF rid \in 1..Len(db)
             THEN [pr EXCEPT ![rid].pc = "build", ![rid].rec = db[rid]]
             ELSE [pr EXCEPT ![rid].pc = "done"]
    /\ UNCHANGED <<cfg, chain, fa, ab, keyVars, bundleVars, hubVars, ve, db, rt>>

\* main.py:237-246: iso.generate_pain001 and then bundle.create_bundle
\* return, or one of them raises
PrBuild(rid) ==
    /\ pr[rid].pc = "build"
    /\ \/ pr' = [pr EXCEPT ![rid].pc = "handler", ![rid].xml = "raised"]
       \/ pr' = [pr EXCEPT ![rid].pc = "handler", ![rid].xml = "returned",
                           ![rid].bundle = "raised"]
       \/ pr' = [pr EXCEPT ![rid].pc = "anchor", ![rid].xml = "returned",
                           ![rid].bundle = "returned",
                           ![rid].rec.bundle_hash = BundleHashOf(rid)]
    /\ UNCHANGED <<cfg, chain, fa, ab, keyVars, bundleVars, hubVars, ve, db, rt>>

\* What a returning anchor_bundle has done to the chain: its transaction is
\* in a new block with the contract's event.
Anchored(hash) ==
    [chain EXCEPT !.latest = @ + 1,
                  !.ntx = @ + 1,
                  !.logs = Append(@, [blockNumber |-> chain.latest + 1,
                                      bundleHash |-> hash,
                                      transactionHash |-> chain.ntx + 1])]

\* main.py:252-255, 262-265
MarkAnchored(rec, txid) ==
    [rec EXCEPT !.flare_txid = txid, !.status = "anchored", !.anchored_at = 1]

\* main.py:248-258: anchor.anchor_bundle returns or raises
PrAnchor(rid) ==
    /\ pr[rid].pc = "anchor"
    /\ \/ /\ chain' = Anchored(pr[rid].rec.bundle_hash)
          /\ pr' = [pr EXCEPT ![rid].pc = "commit", ![rid].web3 = "returned",
                              ![rid].rec = MarkAnchored(@, chain.ntx + 1)]
       \/ /\ pr' = [pr EXCEPT ![rid].pc = "node", ![rid].web3 = "raised"]
          /\ UNCHANGED chain
    /\ UNCHANGED <<cfg, fa, ab, keyVars, bundleVars, hubVars, ve, db, rt>>

\* main.py:259-270: anchor_node.anchor_bundle returns or raises
PrNode(rid) ==
    /\ pr[rid].pc = "node"
    /\ \/ /\ chain' = Anchored(pr[rid].rec.bundle_hash)
          /\ pr' = [pr EXCEPT ![rid].pc = "commit", ![rid].node = "returned",
                              ![rid].rec = MarkAnchored(@, chain.ntx + 1)]
       \/ /\ pr' = [pr EXCEPT ![rid].pc = "commit", ![rid].node = "raised",
                              ![rid].rec.status = "failed"]
          /\ UNCHANGED chain
    /\ UNCHANGED <<cfg, fa, ab, keyVars, bundleVars, hubVars, ve, db, rt>>

\* main.py:273-365: the paths are set and the receipt is committed; the
\* further documents, the event and the callback follow, each inside a try
\* block that swallows its exceptions, and the task returns
PrCommit(rid) ==
    /\ pr[rid].pc = "commit"
    /\ pr' = [pr EXCEPT ![rid].pc = "done", ![rid].rec.paths = TRUE]
    /\ db' = [db EXCEPT ![rid] = [pr[rid].rec EXCEPT !.paths = TRUE]]
    /\ UNCHANGED <<cfg, chain, fa, ab, keyVars, bundleVars, hubVars, ve, rt>>

HandlerKeepsStatus(rec) == rec

\* main.py:360-361
HandlerMarksFailed(rec) == [rec EXCEPT !.status = "failed"]

\* main.py:358-363: the exception handler of the task
PrHandler(rid) ==
    /\ pr[rid].pc = "handler"
    /\ pr' = [pr EXCEPT ![rid].pc = "raised", ![rid].rec = HandlerMarksFailed(@)]
    /\ db' = [db EXCEPT ![rid] = HandlerMarksFailed(pr[rid].rec)]
    /\ UNCHANGED <<cfg, chain, fa, ab, keyVars, bundleVars, hubVars, ve, rt>>

InitReceipts ==
    /\ cfg \in {c \in AnchorConfigs : c.CONTRACT_ADDR = "set" /\ c.PRIVATE_KEY = "set"}
    /\ chain \in {c \in Chains : c.latest = MaxBlock /\ Len(c.logs) = 0}
    /\ fa = faIdle
    /\ ab = abIdle
    /\ ks = ksEmpty
    /\ ek = [p \in Callers |-> ekIdle]
    /\ art = artEmpty
    /\ cb = cbIdle
    /\ vb = vbIdle
    /\ dz = dzIdle
    /\ SvcIdle

NextReceipts ==
    \/ \E c \in Clients :
         \/ RtCall(c)
         \/ RtAuth(c)
         \/ RtQuery(c)
         \/ RtCommit(c)
         \/ RtSchedule(c)
    \/ \E rid \in ReceiptIds :
         \/ PrGet(rid)
         \/ PrBuild(rid)
         \/ PrAnchor(rid)
         \/ PrNode(rid)
         \/ PrCommit(rid)
         \/ PrHandler(rid)

SpecReceipts == InitReceipts /\ [][NextReceipts]_vars

(***************************************************************************)
(* Properties of _process_receipt and record_tip.                          *)
(***************************************************************************)
PrEnded(rid) == pr[rid].pc \in {"done", "raised"} /\ rid \in 1..Len(db)

PrAnchorReturned(rid) ==
    \/ pr[rid].web3 = "returned"
    \/ pr[rid].web3 = "raised" /\ pr[rid].node = "returned"

\* C24: when _process_receipt has returned or raised, the receipt is not
\* 'pending': it is 'anchored' exactly when the web3 anchor call returned or,
\* only after it raised, the Node anchor call returned, and then flare_txid,
\* anchored_at and bundle_hash are set; in every other case (XML generation,
\* bundle building or both back ends failing) it is 'failed'.
C24_ProcessEndsAnchoredOrFailed ==
    \A rid \in ReceiptIds :
        /\ pr[rid].node # "none" => pr[rid].web3 = "raised"
        /\ PrEnded(rid) =>
              /\ db[rid].status # "pending"
              /\ db[rid].status = "anchored" <=> PrAnchorReturned(rid)
              /\ db[rid].status = "anchored" =>
                    /\ db[rid].flare_txid # 0
                    /\ db[rid].anchored_at # 0
                    /\ db[rid].bundle_hash # 0
              /\ ~PrAnchorReturned(rid) => db[rid].status = "failed"

\* C24 witness: one receipt was anchored by the Node back end after the web3
\* call raised, and the task of another ended in the exception handler after
\* create_bundle raised.
C24_Witness ==
    \E r1 \in ReceiptIds : \E r2 \in ReceiptIds :
        /\ PrEnded(r1) /\ PrEnded(r2)
        /\ pr[r1].web3 = "raised" /\ pr[r1].node = "returned"
        /\ db[r1].status = "anchored"
        /\ pr[r2].pc = "raised" /\ pr[r2].bundle = "raised"
        /\ db[r2].status = "failed"

\* the requests with a valid key that arrived when their pair was recorded
\* and that have ended
RtRepeated(c) == rt[c].keyed /\ rt[c].recorded /\ rt[c].pc \in {"done", "raised"}

\* C25: record_tip is idempotent per (chain, tip_tx_hash): under every
\* interleaving of requests at most one receipt exists for a pair, and a
\* request whose pair is already recorded returns the existing receipt's id
\* and status (the status the receipt had, 'pending' if its task has ended
\* since), creates no receipt and schedules no background task.
C25_RecordTipIdempotent ==
    /\ \A i \in 1..Len(db) : \A j \in 1..Len(db) :
          PairOf(db[i]) = PairOf(db[j]) => i = j
    /\ \A c \in Clients : RtRepeated(c) =>
          /\ rt[c].pc = "done"
          /\ rt[c].resp.receipt_id \in RowsOfPair(PairOf(rt[c].payload))
          /\ \/ rt[c].resp.status = db[rt[c].resp.receipt_id].status
             \/ /\ rt[c].resp.status = "pending"
                /\ pr[rt[c].resp.receipt_id].pc \in {"done", "raised"}
          /\ rt[c].created = 0
          /\ rt[c].scheduled = 0
    /\ \A rid \in ReceiptIds : pr[rid].pc # "none" => rid \in 1..Len(db)

\* C25 witness: after three requests for one pair one receipt exists; one
\* client's repeated request was answered with the id of the receipt, by then
\* anchored, and the other client's request, made while the pair was not yet
\* recorded, was refused by the table when it committed.
C25_Witness ==
    /\ Len(db) = 1
    /\ RequestsMade = 3
    /\ \E c \in Clients : \E d \in Clients :
          /\ RtRepeated(c)
          /\ rt[c].resp.status = "anchored"
          /\ rt[d].keyed /\ ~rt[d].recorded /\ rt[d].pc = "raised"
          /\ PairOf(rt[d].payload) = PairOf(rt[c].payload)

(***************************************************************************)
(* The event hub (sse.py).  The coroutines run on one event loop; the lock  *)
(* is only held across code without an await, so it is free whenever a     *)
(* coroutine asks for it and each of subscribe, unsubscribe and publish    *)
(* runs without being suspended.                                           *)
(***************************************************************************)
\* sse.py:18-22, 63-68: a connection subscribes with a new queue
SeSubscribe(s) ==
    /\ se[s].pc = "idle"
    /\ \E rid \in HubRids :
         /\ se' = [se EXCEPT ![s] = [pc |-> "subscribed", rid |-> rid, q |-> <<>>]]
         /\ hub' = [hub EXCEPT ![rid] = [present |-> TRUE, lst |-> Append(@.lst, s)]]
    /\ UNCHANGED <<cfg, chain, fa, ab, keyVars, bundleVars, db, rt, pr, ve, pb>>

\* sse.py:73-76: the generator takes the next message of its queue
SeGet(s) ==
    /\ se[s].pc = "subscribed"
    /\ se[s].q # <<>>
    /\ se' = [se EXCEPT ![s].q = Tail(@)]
    /\ UNCHANGED <<cfg, chain, fa, ab, keyVars, bundleVars, db, rt, pr, ve, hub, pb>>

Without(lst, q) == SelectSeq(lst, LAMBDA x : x # q)

\* sse.py:24-30: the queue is taken off the list; an empty list is deleted
Unsubscribe(entry, q) ==
    LET lst == IF entry.present THEN Without(entry.lst, q) ELSE <<>>
    IN IF lst = <<>> THEN [present |-> FALSE, lst |-> <<>>]
       ELSE [present |-> TRUE, lst |-> lst]

\* sse.py:81-82: the connection ends and the generator unsubscribes
SeClose(s) ==
    /\ se[s].pc = "subscribed"
    /\ hub' = [hub EXCEPT ![se[s].rid] = Unsubscribe(@, s)]
    /\ se' = [se EXCEPT ![s] = seIdle]
    /\ UNCHANGED <<cfg, chain, fa, ab, keyVars, bundleVars, db, rt, pr, ve, pb>>

PutAlways(q, data) == Append(q, data)

\* sse.py:38-42: put_nowait; QueueFull is swallowed and the message dropped
PutNowait(q, data) == IF Len(q) < QueueMax THEN Append(q, data) ELSE q

\* sse.py:32-42: the list of the receipt id is copied and the message is
\* put on each of its queues
HubPublish ==
    /\ \E rid \in HubRids :
         LET lst == IF hub[rid].present THEN hub[rid].lst ELSE <<>> IN
         /\ se' = [s \in Streams |->
                     IF \E i \in 1..Len(lst) : lst[i] = s
                     THEN [se[s] EXCEPT !.q = PutNowait(@, "m")]
                     ELSE se[s]]
         /\ pb' = [rid |-> rid, n |-> 1 - pb.n]
    /\ UNCHANGED <<cfg, chain, fa, ab, keyVars, bundleVars, db, rt, pr, ve, hub>>

InitHub ==
    /\ cfg \in {c \in AnchorConfigs : c.CONTRACT_ADDR = "set" /\ c.PRIVATE_KEY = "set"}
    /\ chain \in {c \in Chains : c.latest = MaxBlock /\ Len(c.logs) = 0}
    /\ fa = faIdle
    /\ ab = abIdle
    /\ ks = ksEmpty
    /\ ek = [p \in Callers |-> ekIdle]
    /\ art = artEmpty
    /\ cb = cbIdle
    /\ vb = vbIdle
    /\ dz = dzIdle
    /\ SvcIdle

NextHub ==
    \/ \E s \in Streams :
         \/ SeSubscribe(s)
         \/ SeGet(s)
         \/ SeClose(s)
    \/ HubPublish

SpecHub == InitHub /\ [][NextHub]_vars

\* the streams subscribed to rid
SubscribedTo(rid) == {s \in Streams : se[s].pc = "subscribed" /\ se[s].rid = rid}

\* C26: for every interleaving of subscribe, unsubscribe and publish,
\* publish(rid, m) is never blocked and puts m on every queue subscribed to
\* rid at that moment that holds fewer than 100 messages, dropping it only
\* for the full ones and touching no other queue; no queue ever holds more
\* than 100 messages, and a receipt id whose last subscriber unsubscribed has
\* no entry in the hub.
C26_PublishNeverBlocksQueuesBounded ==
    /\ [](/\ ENABLED HubPublish
          /\ \A s \in Streams : Len(se[s].q) <= 100
          /\ \A rid \in HubRids :
                /\ hub[rid].present <=> SubscribedTo(rid) # {}
                /\ {hub[rid].lst[i] : i \in 1..Len(hub[rid].lst)} = SubscribedTo(rid)
                /\ Len(hub[rid].lst) = Cardinality(SubscribedTo(rid)))
    /\ [][pb' # pb =>
            \A s \in Streams :
                se'[s].q = IF s \in SubscribedTo(pb'.rid) /\ Len(se[s].q) < 100
                           THEN se[s].q \o <<"m">>
                           ELSE se[s].q]_vars

\* C26 witness: a message was just published for a receipt id with two
\* subscribers, one whose queue is full and one whose queue has room; the
\* other receipt id lost its entry when its subscriber left.
C26_Witness ==
    /\ pb.rid = "r1"
    /\ SubscribedTo("r1") = {"s1", "s2"}
    /\ Len(se["s1"].q) = 100
    /\ Len(se["s2"].q) \in 1..99
    /\ ~hub["r2"].present

(***************************************************************************)
(* The verify endpoint (main.py:421-498).  A bundle hash is the number of  *)
(* the receipt whose bundle it is the digest of, the next number for the   *)
(* digest of an archive that is no receipt's bundle; 0 stands for an empty *)
(* string and -1 for a string that is not 0x and 64 hexadecimal digits.    *)
(***************************************************************************)
\* digest of a stored archive that was altered after create_bundle
AlteredHash == Cardinality(ReceiptIds) + 1

\* schemas.py:56-69: exactly one of bundle_url and bundle_hash is given
VerifyRequests ==
    {[by_url |-> TRUE, bundle_hash |-> 0]}
    \cup {[by_url |-> FALSE, bundle_hash |-> h] : h \in ReceiptIds \cup {AlteredHash, -1}}

\* bundle.py:260-354: what verify_bundle returns for the URL: nothing could
\* be downloaded; a receipt's bundle, with its signature or with a
\* signature file that does not verify; an altered archive
VerifyBundleResults ==
    {[bundle_hash |-> 0, errors |-> <<"download_failed">>]}
    \cup {[bundle_hash |-> h, errors |-> e] :
            h \in ReceiptIds, e \in {<<>>, <<"signature_invalid">>}}
    \cup {[bundle_hash |-> AlteredHash, errors |-> e] :
            e \in {<<"file_hash_mismatch">>, <<"file_hash_mismatch", "signature_invalid">>}}

\* main.py:440
GoodShape(h) == h > 0

\* the receipts _process_receipt has finished, those of anchored marked
\* anchored with their transaction, the others failed
TxOf(anchored, rid) == Cardinality({j \in anchored : j <= rid})

ProcessedDb(anchored) ==
    [rid \in ReceiptIds |->
        LET row == [NewReceipt(rid, [chain |-> "coston2", tip_tx_hash |-> rid,
                                     reference |-> rid])
                      EXCEPT !.bundle_hash = BundleHashOf(rid), !.paths = TRUE]
        IN IF rid \in anchored THEN MarkAnchored(row, TxOf(anchored, rid))
           ELSE [row EXCEPT !.status = "failed"]]

\* the chain holding the events of these receipts' anchoring transactions
ProcessedChain(anchored) ==
    LET n == Cardinality(anchored)
        ridOf(i) == CHOOSE rid \in anchored : TxOf(anchored, rid) = i
    IN [latest |-> MaxBlock + n, ntx |-> n,
        logs |-> [i \in 1..n |-> [blockNumber |-> MaxBlock + i,
                                  bundleHash |-> BundleHashOf(ridOf(i)),
                                  transactionHash |-> i]]]

\* main.py:422: a request arrives
VeCall ==
    /\ ve.pc \in {"idle", "done"}
    /\ ve.calls < MaxVerifies
    /\ \E req \in VerifyRequests :
        ve' = [veIdle EXCEPT !.pc = "hash", !.auto = ve.auto, !.calls = ve.calls + 1,
                             !.by_url = req.by_url, !.req_hash = req.bundle_hash,
                             !.db0 = db]
    /\ UNCHANGED <<cfg, chain, fa, ab, keyVars, bundleVars, hubVars, db, rt, pr>>

\* main.py:428-442: the hash is taken from the request, or verify_bundle is
\* called and its errors are kept; a hash of the wrong shape ends the call
VeHash ==
    /\ ve.pc = "hash"
    /\ \E v \in IF ve.by_url THEN VerifyBundleResults
                ELSE {[bundle_hash |-> ve.req_hash, errors |-> <<>>]} :
        ve' = IF GoodShape(v.bundle_hash)
              THEN [ve EXCEPT !.pc = "lookup", !.verified = ve.by_url,
                              !.verrors = v.errors, !.bundle_hash = v.bundle_hash,
                              !.errors = v.errors]
              ELSE [ve EXCEPT !.pc = "done", !.verified = ve.by_url,
                              !.verrors = v.errors, !.bundle_hash = v.bundle_hash,
                              !.errors = v.errors \o <<"invalid_or_missing_bundle_hash">>,
                              !.resp = [NoVerifyResp EXCEPT
                                          !.bundle_hash = v.bundle_hash,
                                          !.errors = v.errors
                                                     \o <<"invalid_or_missing_bundle_hash">>]]
    /\ UNCHANGED <<cfg, chain, fa, ab, keyVars, bundleVars, hubVars, db, rt, pr>>

\* main.py:444-462: find_anchor (of the web3 module, else of the Node
\* module) returns an event with the hash, or returns no match, or both
\* raise
VeLookup ==
    /\ ve.pc = "lookup"
    /\ \/ \E i \in 1..Len(chain.logs) :
            /\ chain.logs[i].bundleHash = ve.bundle_hash
            /\ ve' = [ve EXCEPT !.pc = "auto", !.matches = TRUE,
                                !.txid = chain.logs[i].transactionHash]
       \/ ve' = [ve EXCEPT !.pc = "auto"]
       \/ ve' = [ve EXCEPT !.pc = "auto", !.errors = @ \o <<"anchor_lookup_unavailable">>]
    /\ UNCHANGED <<cfg, chain, fa, ab, keyVars, bundleVars, hubVars, db, rt, pr>>

\* main.py:465
AutoAnchors == ~ve.matches /\ ve.auto = "1" /\ cfg.PRIVATE_KEY = "set"

\* main.py:464-473: anchor_bundle is not called; or it returns with its
\* transaction included; or it raises, before any transaction was sent or
\* after one was
VeAutoAnchor ==
    /\ ve.pc = "auto"
    /\ IF ~AutoAnchors
       THEN ve' = [ve EXCEPT !.pc = "update"] /\ UNCHANGED chain
       ELSE \/ /\ cfg.CONTRACT_ADDR = "set"
               /\ chain' = Anchored(ve.bundle_hash)
               /\ ve' = [ve EXCEPT !.pc = "update", !.matches = TRUE,
                                   !.txid = chain.ntx + 1, !.submitted = TRUE]
            \/ /\ ve' = [ve EXCEPT !.pc = "update",
                                   !.errors = @ \o <<"anchoring_failed">>]
               /\ UNCHANGED chain
            \/ /\ cfg.CONTRACT_ADDR = "set"
               /\ ve' = [ve EXCEPT !.pc = "update", !.submitted = TRUE,
                                   !.errors = @ \o <<"anchoring_failed">>]
               /\ UNCHANGED chain
    /\ UNCHANGED <<cfg, fa, ab, keyVars, bundleVars, hubVars, db, rt, pr>>

\* main.py:479-484: the newest receipt with the bundle hash
RowsWithHash(h) == {i \in 1..Len(db) : db[i].bundle_hash = h}

\* main.py:475-498: with a match, the newest receipt with the hash is marked
\* anchored and committed (or the update raises and is dropped); the
\* response is returned
VeUpdate ==
    /\ ve.pc = "update"
    /\ LET rows == RowsWithHash(ve.bundle_hash) IN
       \/ /\ ve.matches /\ rows # {}
          /\ LET i == CHOOSE r \in rows : \A q \in rows : q <= r
             IN db' = [db EXCEPT ![i] = MarkAnchored(@, ve.txid)]
       \/ UNCHANGED db
    /\ ve' = [ve EXCEPT !.pc = "done",
                        !.resp = [matches_onchain |-> ve.matches,
                                  bundle_hash |-> ve.bundle_hash,
                                  flare_txid |-> ve.txid, errors |-> ve.errors]]
    /\ UNCHANGED <<cfg, chain, fa, ab, keyVars, bundleVars, hubVars, rt, pr>>

InitVerify ==
    /\ cfg \in AnchorConfigs
    /\ \E anchored \in SUBSET ReceiptIds :
          /\ db = ProcessedDb(anchored)
          /\ chain = ProcessedChain(anchored)
    /\ fa = faIdle
    /\ ab = abIdle
    /\ ks = ksEmpty
    /\ ek = [p \in Callers |-> ekIdle]
    /\ art = artEmpty
    /\ cb = cbIdle
    /\ vb = vbIdle
    /\ dz = dzIdle
    /\ rt = [c \in Clients |-> rtIdle]
    /\ pr = [rid \in ReceiptIds |-> prIdle]
    /\ ve \in {[veIdle EXCEPT !.auto = a] : a \in {"0", "1"}}
    /\ hub = hubEmpty
    /\ se = [s \in Streams |-> seIdle]
    /\ pb = pbNone

NextVerify ==
    \/ VeCall
    \/ VeHash
    \/ VeLookup
    \/ VeAutoAnchor
    \/ VeUpdate

SpecVerify == InitVerify /\ [][NextVerify]_vars

\* C30: when verify_bundle returned a non-empty error list, the call of the
\* verify endpoint submits no anchoring transaction, does not report
\* matches_onchain=True and changes no receipt.
C30_ActsOnlyWithoutIntegrityErrors ==
    (ve.pc = "done" /\ ve.verified /\ ve.verrors # <<>>) =>
        /\ ~ve.submitted
        /\ ~ve.resp.matches_onchain
        /\ db = ve.db0

====
